---- MODULE Spec2Model ----
(***************************************************************************)
(* Bitmap (8-bit sRGB RGBA) and BitmapHdr (32-bit float RGBA) pixel        *)
(* buffers of moderncore: construction, the geometric primitives,          *)
(* orientation normalization, Resize, Extend and SetAlpha; and the         *)
(* operations that hand work units to a TaskDispatch worker pool:          *)
(* SetColorspace, Resize, ResizeNew and tone mapping.                      *)
(*                                                                         *)
(* m_data is the backing array as a sequence of elements (bytes for        *)
(* Bitmap, floats for BitmapHdr); C offset k is TLA+ index k+1.  One       *)
(* buffer object is modelled; cls says which class it is an instance of.   *)
(***************************************************************************)
EXTENDS Integers, Sequences, FiniteSets, TLC

VARIABLES cls, m_width, m_height, m_data, m_orientation, status, last, nops,
          m_colorspace, td, call, ret, provider, viewport

vars == <<cls, m_width, m_height, m_data, m_orientation, status, last, nops,
          m_colorspace, td, call, ret, provider, viewport>>

\* the colorspace tag, the worker pool, the call that is waiting for the pool
\* and the object the last call returned
tdvars == <<m_colorspace, td, call, ret>>

\* the image provider and the viewport
ivvars == <<provider, viewport>>

-----------------------------------------------------------------------------
(* Bounds *)

\* largest width and height of a constructed buffer
MaxDim == 4

\* largest width and height passed to Resize and Extend
MaxNewDim == 3

\* orientation values handed to the constructor: the codes 0..8 and
\* OrientSlack values on either side of them
OrientSlack == 1

\* calls made on the buffer in one run
MaxOps == 2

\* alpha values passed to SetAlpha
AlphaVals == {0, 255}

-----------------------------------------------------------------------------
(* Memory primitives.  Sizes and offsets are uint32_t in the code; within   *)
(* the bounds of this model no product reaches 2^32.                       *)

\* content of an element that was allocated and never written
Uninit == -1

\* new T[n]: n elements, none written
NewArray(n) == [i \in 1..n |-> Uninit]

\* memcpy( dst + to, src + from, n elements ), both arrays given by value
Memcpy(dst, to, src, from, n) ==
    [j \in 1..Len(dst) |->
        IF (j - 1 >= to) /\ (j - 1 < to + n) THEN src[from + (j - 1 - to) + 1] ELSE dst[j]]

\* memcpy( tmp, p1, n ); memcpy( p1, p2, n ); memcpy( p2, tmp, n ) and
\* std::swap( *p1, *p2 ) on n-element groups of the same array
SwapRange(d, p1, p2, n) ==
    LET tmp == [i \in 1..n |-> d[p1 + i]]
        d1  == Memcpy(d, p1, d, p2, n)
    IN  Memcpy(d1, p2, tmp, 0, n)

\* memset( dst + to, v, n elements ); writes past the end are dropped here
\* and reported by the caller
Memset(dst, to, v, n) ==
    [j \in 1..Len(dst) |-> IF (j - 1 >= to) /\ (j - 1 < to + n) THEN v ELSE dst[j]]

-----------------------------------------------------------------------------
(* The object the member functions work on: the fields, the termination    *)
(* status, and three records of the running call: the primitives it has    *)
(* called (calls), the number of allocations (new[], alloca) it has made   *)
(* (nalloc), and whether it has written outside an allocated array (oob).  *)
(* Three more describe the memory: whether new[] fails in this call        *)
(* (nomem), the content of the replacement array at the moment delete[]    *)
(* releases the old one (atFree), and the stores of SetAlpha in order, each *)
(* with its element offset and the number of elements it writes (writes).  *)

This ==
    [m_width |-> m_width, m_height |-> m_height, m_data |-> m_data,
     m_orientation |-> m_orientation, status |-> "ok", calls |-> <<>>, nalloc |-> 0,
     oob |-> FALSE, nomem |-> FALSE, atFree |-> <<>>, writes |-> <<>>]

\* operator new[] of a call made with b.nomem cannot get the memory: it throws
\* std::bad_alloc, and the function is left at that statement
BadAlloc(b) == [b EXCEPT !.status = "std::bad_alloc"]

\* Panic( msg ): prints the message and aborts; nothing after it runs
Panic(b, msg) == [b EXCEPT !.status = msg]

-----------------------------------------------------------------------------
(* Bitmap: geometric primitives *)

RECURSIVE Bitmap_FlipVertical_loop(_, _, _, _, _, _)
Bitmap_FlipVertical_loop(d, y, ptr1, ptr2, w, h) ==
    IF y < h \div 2
    THEN Bitmap_FlipVertical_loop(SwapRange(d, ptr1, ptr2, w * 4), y + 1,
                                  ptr1 + w * 4, ptr2 - w * 4, w, h)
    ELSE d

\* as Bitmap_FlipVertical with the loop running over all m_height rows
Bitmap_FlipVertical_allRows(b) ==
    [b EXCEPT !.m_data = Bitmap_FlipVertical_loop(b.m_data, 0, 0,
                             (b.m_height - 1) * b.m_width * 4, b.m_width, 2 * b.m_height),
              !.nalloc = @ + 1,
              !.calls = Append(@, "FlipVertical")]

Bitmap_FlipVertical(b) ==
    [b EXCEPT !.m_data = Bitmap_FlipVertical_loop(b.m_data, 0, 0,
                             (b.m_height - 1) * b.m_width * 4, b.m_width, b.m_height),
              !.nalloc = @ + 1,
              !.calls = Append(@, "FlipVertical")]

\* the inner loop over x; pointers count uint32_t pixels
RECURSIVE Bitmap_FlipHorizontal_row(_, _, _, _, _)
Bitmap_FlipHorizontal_row(d, x, ptr1, ptr2, w) ==
    IF x < w \div 2
    THEN Bitmap_FlipHorizontal_row(SwapRange(d, ptr1 * 4, ptr2 * 4, 4), x + 1,
                                   ptr1 + 1, ptr2 - 1, w)
    ELSE d

RECURSIVE Bitmap_FlipHorizontal_loop(_, _, _, _, _)
Bitmap_FlipHorizontal_loop(d, y, ptr, w, h) ==
    IF y < h
    THEN Bitmap_FlipHorizontal_loop(Bitmap_FlipHorizontal_row(d, 0, ptr, ptr + w - 1, w),
                                    y + 1, ptr + w, w, h)
    ELSE d

Bitmap_FlipHorizontal(b) ==
    [b EXCEPT !.m_data = Bitmap_FlipHorizontal_loop(b.m_data, 0, 0, b.m_width, b.m_height),
              !.calls = Append(@, "FlipHorizontal")]

\* both loops of Rotate90 as one loop over k = y * m_width + x
\* as Bitmap_Rotate90_loop with the destination column not mirrored
RECURSIVE Bitmap_Rotate90_loop_noMirror(_, _, _, _, _)
Bitmap_Rotate90_loop_noMirror(dst, src, k, w, h) ==
    IF k < w * h
    THEN LET y == k \div w
             x == k % w
         IN  Bitmap_Rotate90_loop_noMirror(
                 Memcpy(dst, (x * h + y) * 4, src, (y * w + x) * 4, 4),
                 src, k + 1, w, h)
    ELSE dst

RECURSIVE Bitmap_Rotate90_loop(_, _, _, _, _)
Bitmap_Rotate90_loop(dst, src, k, w, h) ==
    IF k < w * h
    THEN LET y == k \div w
             x == k % w
         IN  Bitmap_Rotate90_loop(
                 Memcpy(dst, (x * h + h - y - 1) * 4, src, (y * w + x) * 4, 4),
                 src, k + 1, w, h)
    ELSE dst

\* as Bitmap_Rotate90 with delete[] m_data as its first statement
Bitmap_Rotate90_freeFirst(b) ==
    IF b.nomem
    THEN [BadAlloc(b) EXCEPT !.m_data = <<>>]
    ELSE LET tmp  == NewArray(b.m_width * b.m_height * 4)
             tmp1 == Bitmap_Rotate90_loop(tmp, b.m_data, 0, b.m_width, b.m_height)
         IN  [b EXCEPT !.atFree = tmp,
                       !.m_data = tmp1,
                       !.m_width = b.m_height,
                       !.m_height = b.m_width,
                       !.nalloc = @ + 1,
                       !.calls = Append(@, "Rotate90")]

Bitmap_Rotate90(b) ==
    IF b.nomem
    THEN BadAlloc(b)
    ELSE LET tmp  == NewArray(b.m_width * b.m_height * 4)
             tmp1 == Bitmap_Rotate90_loop(tmp, b.m_data, 0, b.m_width, b.m_height)
         IN  [b EXCEPT !.atFree = tmp1,
                       !.m_data = tmp1,
                       !.m_width = b.m_height,
                       !.m_height = b.m_width,
                       !.nalloc = @ + 1,
                       !.calls = Append(@, "Rotate90")]

\* pointers count uint32_t pixels
RECURSIVE Bitmap_Rotate180_loop(_, _, _, _, _)
Bitmap_Rotate180_loop(d, i, ptr1, ptr2, n) ==
    IF i < n
    THEN Bitmap_Rotate180_loop(SwapRange(d, ptr1 * 4, ptr2 * 4, 4), i + 1,
                               ptr1 + 1, ptr2 - 1, n)
    ELSE d

Bitmap_Rotate180(b) ==
    [b EXCEPT !.m_data = Bitmap_Rotate180_loop(b.m_data, 0, 0, b.m_width * b.m_height - 1,
                             (b.m_width * b.m_height) \div 2),
              !.calls = Append(@, "Rotate180")]

\* as Bitmap_Rotate270_loop with the destination index of Rotate90
RECURSIVE Bitmap_Rotate270_loop_as90(_, _, _, _, _)
Bitmap_Rotate270_loop_as90(dst, src, k, w, h) ==
    IF k < w * h
    THEN LET y == k \div w
             x == k % w
         IN  Bitmap_Rotate270_loop_as90(
                 Memcpy(dst, (x * h + h - y - 1) * 4, src, (y * w + x) * 4, 4),
                 src, k + 1, w, h)
    ELSE dst

RECURSIVE Bitmap_Rotate270_loop(_, _, _, _, _)
Bitmap_Rotate270_loop(dst, src, k, w, h) ==
    IF k < w * h
    THEN LET y == k \div w
             x == k % w
         IN  Bitmap_Rotate270_loop(
                 Memcpy(dst, ((w - x - 1) * h + y) * 4, src, (y * w + x) * 4, 4),
                 src, k + 1, w, h)
    ELSE dst

Bitmap_Rotate270(b) ==
    IF b.nomem
    THEN BadAlloc(b)
    ELSE LET tmp  == NewArray(b.m_width * b.m_height * 4)
             tmp1 == Bitmap_Rotate270_loop(tmp, b.m_data, 0, b.m_width, b.m_height)
         IN  [b EXCEPT !.atFree = tmp1,
                       !.m_data = tmp1,
                       !.m_width = b.m_height,
                       !.m_height = b.m_width,
                       !.nalloc = @ + 1,
                       !.calls = Append(@, "Rotate270")]

\* as Bitmap_NormalizeOrientation with the rotations of codes 5 and 7 exchanged
Bitmap_NormalizeOrientation_swap57(b) ==
    IF b.m_orientation <= 1 THEN b
    ELSE LET r == CASE b.m_orientation = 2 -> Bitmap_FlipHorizontal(b)
                    [] b.m_orientation = 3 -> Bitmap_Rotate180(b)
                    [] b.m_orientation = 4 -> Bitmap_FlipVertical(b)
                    [] b.m_orientation = 5 -> Bitmap_FlipVertical(Bitmap_Rotate90(b))
                    [] b.m_orientation = 6 -> Bitmap_Rotate90(b)
                    [] b.m_orientation = 7 -> Bitmap_FlipVertical(Bitmap_Rotate270(b))
                    [] b.m_orientation = 8 -> Bitmap_Rotate270(b)
                    [] OTHER -> Panic(b, "Invalid orientation value!")
         IN  IF r.status = "ok" THEN [r EXCEPT !.m_orientation = 1] ELSE r

\* as Bitmap_NormalizeOrientation without the final m_orientation = 1
Bitmap_NormalizeOrientation_noReset(b) ==
    IF b.m_orientation <= 1 THEN b
    ELSE CASE b.m_orientation = 2 -> Bitmap_FlipHorizontal(b)
           [] b.m_orientation = 3 -> Bitmap_Rotate180(b)
           [] b.m_orientation = 4 -> Bitmap_FlipVertical(b)
           [] b.m_orientation = 5 -> Bitmap_FlipVertical(Bitmap_Rotate270(b))
           [] b.m_orientation = 6 -> Bitmap_Rotate90(b)
           [] b.m_orientation = 7 -> Bitmap_FlipVertical(Bitmap_Rotate90(b))
           [] b.m_orientation = 8 -> Bitmap_Rotate270(b)
           [] OTHER -> Panic(b, "Invalid orientation value!")

Bitmap_NormalizeOrientation(b) ==
    IF b.m_orientation <= 1 THEN b
    ELSE LET r == CASE b.m_orientation = 2 -> Bitmap_FlipHorizontal(b)
                    [] b.m_orientation = 3 -> Bitmap_Rotate180(b)
                    [] b.m_orientation = 4 -> Bitmap_FlipVertical(b)
                    [] b.m_orientation = 5 -> Bitmap_FlipVertical(Bitmap_Rotate270(b))
                    [] b.m_orientation = 6 -> Bitmap_Rotate90(b)
                    [] b.m_orientation = 7 -> Bitmap_FlipVertical(Bitmap_Rotate90(b))
                    [] b.m_orientation = 8 -> Bitmap_Rotate270(b)
                    [] OTHER -> Panic(b, "Invalid orientation value!")
         IN  IF r.status = "ok" THEN [r EXCEPT !.m_orientation = 1] ELSE r

-----------------------------------------------------------------------------
(* BitmapHdr: geometric primitives; pointers count floats *)

RECURSIVE BitmapHdr_FlipVertical_loop(_, _, _, _, _, _)
BitmapHdr_FlipVertical_loop(d, y, ptr1, ptr2, w, h) ==
    IF y < h \div 2
    THEN BitmapHdr_FlipVertical_loop(SwapRange(d, ptr1, ptr2, w * 4), y + 1,
                                     ptr1 + w * 4, ptr2 - w * 4, w, h)
    ELSE d

BitmapHdr_FlipVertical(b) ==
    [b EXCEPT !.m_data = BitmapHdr_FlipVertical_loop(b.m_data, 0, 0,
                             (b.m_height - 1) * b.m_width * 4, b.m_width, b.m_height),
              !.nalloc = @ + 1,
              !.calls = Append(@, "FlipVertical")]

RECURSIVE BitmapHdr_FlipHorizontal_row(_, _, _, _, _)
BitmapHdr_FlipHorizontal_row(d, x, ptr1, ptr2, w) ==
    IF x < w \div 2
    THEN BitmapHdr_FlipHorizontal_row(SwapRange(d, ptr1, ptr2, 4), x + 1,
                                      ptr1 + 4, ptr2 - 4, w)
    ELSE d

RECURSIVE BitmapHdr_FlipHorizontal_loop(_, _, _, _, _)
BitmapHdr_FlipHorizontal_loop(d, y, ptr, w, h) ==
    IF y < h
    THEN BitmapHdr_FlipHorizontal_loop(
             BitmapHdr_FlipHorizontal_row(d, 0, ptr, ptr + (w - 1) * 4, w),
             y + 1, ptr + w * 4, w, h)
    ELSE d

BitmapHdr_FlipHorizontal(b) ==
    [b EXCEPT !.m_data = BitmapHdr_FlipHorizontal_loop(b.m_data, 0, 0, b.m_width, b.m_height),
              !.calls = Append(@, "FlipHorizontal")]

RECURSIVE BitmapHdr_Rotate90_loop(_, _, _, _, _)
BitmapHdr_Rotate90_loop(dst, src, k, w, h) ==
    IF k < w * h
    THEN LET y == k \div w
             x == k % w
         IN  BitmapHdr_Rotate90_loop(
                 Memcpy(dst, (x * h + h - y - 1) * 4, src, (y * w + x) * 4, 4),
                 src, k + 1, w, h)
    ELSE dst

BitmapHdr_Rotate90(b) ==
    IF b.nomem
    THEN BadAlloc(b)
    ELSE LET tmp  == NewArray(b.m_width * b.m_height * 4)
             tmp1 == BitmapHdr_Rotate90_loop(tmp, b.m_data, 0, b.m_width, b.m_height)
         IN  [b EXCEPT !.atFree = tmp1,
                       !.m_data = tmp1,
                       !.m_width = b.m_height,
                       !.m_height = b.m_width,
                       !.nalloc = @ + 1,
                       !.calls = Append(@, "Rotate90")]

RECURSIVE BitmapHdr_Rotate180_loop(_, _, _, _, _)
BitmapHdr_Rotate180_loop(d, i, ptr1, ptr2, n) ==
    IF i < n
    THEN BitmapHdr_Rotate180_loop(SwapRange(d, ptr1, ptr2, 4), i + 1,
                                  ptr1 + 4, ptr2 - 4, n)
    ELSE d

BitmapHdr_Rotate180(b) ==
    [b EXCEPT !.m_data = BitmapHdr_Rotate180_loop(b.m_data, 0, 0,
                             (b.m_width * b.m_height - 1) * 4,
                             (b.m_width * b.m_height) \div 2),
              !.calls = Append(@, "Rotate180")]

\* as BitmapHdr_Rotate270_loop with the destination row scaled by m_width
RECURSIVE BitmapHdr_Rotate270_loop_rowW(_, _, _, _, _)
BitmapHdr_Rotate270_loop_rowW(dst, src, k, w, h) ==
    IF k < w * h
    THEN LET y == k \div w
             x == k % w
         IN  BitmapHdr_Rotate270_loop_rowW(
                 Memcpy(dst, ((w - x - 1) * w + y) * 4, src, (y * w + x) * 4, 4),
                 src, k + 1, w, h)
    ELSE dst

RECURSIVE BitmapHdr_Rotate270_loop(_, _, _, _, _)
BitmapHdr_Rotate270_loop(dst, src, k, w, h) ==
    IF k < w * h
    THEN LET y == k \div w
             x == k % w
         IN  BitmapHdr_Rotate270_loop(
                 Memcpy(dst, ((w - x - 1) * h + y) * 4, src, (y * w + x) * 4, 4),
                 src, k + 1, w, h)
    ELSE dst

BitmapHdr_Rotate270(b) ==
    IF b.nomem
    THEN BadAlloc(b)
    ELSE LET tmp  == NewArray(b.m_width * b.m_height * 4)
             tmp1 == BitmapHdr_Rotate270_loop(tmp, b.m_data, 0, b.m_width, b.m_height)
         IN  [b EXCEPT !.atFree = tmp1,
                       !.m_data = tmp1,
                       !.m_width = b.m_height,
                       !.m_height = b.m_width,
                       !.nalloc = @ + 1,
                       !.calls = Append(@, "Rotate270")]

\* as BitmapHdr_NormalizeOrientation with the rotations of codes 6 and 8 exchanged
BitmapHdr_NormalizeOrientation_swap68(b) ==
    IF b.m_orientation <= 1 THEN b
    ELSE LET r == CASE b.m_orientation = 2 -> BitmapHdr_FlipHorizontal(b)
                    [] b.m_orientation = 3 -> BitmapHdr_Rotate180(b)
                    [] b.m_orientation = 4 -> BitmapHdr_FlipVertical(b)
                    [] b.m_orientation = 5 -> BitmapHdr_FlipVertical(BitmapHdr_Rotate270(b))
                    [] b.m_orientation = 6 -> BitmapHdr_Rotate270(b)
                    [] b.m_orientation = 7 -> BitmapHdr_FlipVertical(BitmapHdr_Rotate90(b))
                    [] b.m_orientation = 8 -> BitmapHdr_Rotate90(b)
                    [] OTHER -> Panic(b, "Invalid orientation value!")
         IN  IF r.status = "ok" THEN [r EXCEPT !.m_orientation = 1] ELSE r

\* as BitmapHdr_NormalizeOrientation with the early return taken for
\* m_orientation < 1 only
BitmapHdr_NormalizeOrientation_lt1(b) ==
    IF b.m_orientation < 1 THEN b
    ELSE LET r == CASE b.m_orientation = 2 -> BitmapHdr_FlipHorizontal(b)
                    [] b.m_orientation = 3 -> BitmapHdr_Rotate180(b)
                    [] b.m_orientation = 4 -> BitmapHdr_FlipVertical(b)
                    [] b.m_orientation = 5 -> BitmapHdr_FlipVertical(BitmapHdr_Rotate270(b))
                    [] b.m_orientation = 6 -> BitmapHdr_Rotate90(b)
                    [] b.m_orientation = 7 -> BitmapHdr_FlipVertical(BitmapHdr_Rotate90(b))
                    [] b.m_orientation = 8 -> BitmapHdr_Rotate270(b)
                    [] OTHER -> Panic(b, "Invalid orientation value!")
         IN  IF r.status = "ok" THEN [r EXCEPT !.m_orientation = 1] ELSE r

BitmapHdr_NormalizeOrientation(b) ==
    IF b.m_orientation <= 1 THEN b
    ELSE LET r == CASE b.m_orientation = 2 -> BitmapHdr_FlipHorizontal(b)
                    [] b.m_orientation = 3 -> BitmapHdr_Rotate180(b)
                    [] b.m_orientation = 4 -> BitmapHdr_FlipVertical(b)
                    [] b.m_orientation = 5 -> BitmapHdr_FlipVertical(BitmapHdr_Rotate270(b))
                    [] b.m_orientation = 6 -> BitmapHdr_Rotate90(b)
                    [] b.m_orientation = 7 -> BitmapHdr_FlipVertical(BitmapHdr_Rotate90(b))
                    [] b.m_orientation = 8 -> BitmapHdr_Rotate270(b)
                    [] OTHER -> Panic(b, "Invalid orientation value!")
         IN  IF r.status = "ok" THEN [r EXCEPT !.m_orientation = 1] ELSE r

-----------------------------------------------------------------------------
(* Resize: the resampler (stb_image_resize2) is an external library.  It   *)
(* writes every element of the sw x sh -> dw x dh output; its kernel is    *)
(* not part of this code, and is taken here to be point sampling.          *)

stbir_resize_extended(src, sw, sh, dst, dw, dh) ==
    [j \in 1..Len(dst) |->
        IF j <= dw * dh * 4
        THEN LET p == (j - 1) \div 4
                 c == (j - 1) % 4
                 x == p % dw
                 y == p \div dw
                 sx == (x * sw) \div dw
                 sy == (y * sh) \div dh
             IN  src[(sy * sw + sx) * 4 + c + 1]
        ELSE dst[j]]

Bitmap_Resize(b, width, height) ==
    IF b.nomem
    THEN BadAlloc(b)
    ELSE LET newData  == NewArray(width * height * 4)
             newData1 == stbir_resize_extended(b.m_data, b.m_width, b.m_height,
                                               newData, width, height)
         IN  [b EXCEPT !.atFree = newData1,
                       !.m_data = newData1,
                       !.m_width = width,
                       !.m_height = height,
                       !.nalloc = @ + 1]

BitmapHdr_Resize(b, width, height) ==
    IF b.nomem
    THEN BadAlloc(b)
    ELSE LET newData  == NewArray(width * height * 4)
             newData1 == stbir_resize_extended(b.m_data, b.m_width, b.m_height,
                                               newData, width, height)
         IN  [b EXCEPT !.atFree = newData1,
                       !.m_data = newData1,
                       !.m_width = width,
                       !.m_height = height,
                       !.nalloc = @ + 1]

-----------------------------------------------------------------------------
(* Bitmap::Extend.  st = [data, oob]: the new array and whether a write    *)
(* fell outside it.                                                        *)

\* a write of n > 0 elements at offset to of an array of len elements leaves it
Outside(to, n, len) == (n > 0) /\ (to + n > len)

RECURSIVE Bitmap_Extend_loop(_, _, _, _, _, _, _, _, _)
Bitmap_Extend_loop(st, y, src, dst, old, mw, mh, width, height) ==
    IF y < mh
    THEN LET stride == width - mw
             len  == Len(st.data)
             d1   == Memcpy(st.data, dst, old, src, mw * 4)
             dst1 == dst + width * 4
             d2   == Memset(d1, dst1, 0, stride * 4)
             oob  == st.oob \/ Outside(dst, mw * 4, len) \/ Outside(dst1, stride * 4, len)
         IN  Bitmap_Extend_loop([data |-> d2, oob |-> oob], y + 1, src + mw * 4,
                                dst1 + stride * 4, old, mw, mh, width, height)
    ELSE LET n == (height - mh) * width * 4
         IN  [data |-> Memset(st.data, dst, 0, n),
              oob  |-> st.oob \/ Outside(dst, n, Len(st.data))]

Bitmap_Extend(b, width, height) ==
    IF ~(width >= b.m_width /\ height >= b.m_height)
    THEN Panic(b, "Invalid extension")
    ELSE LET data == NewArray(width * height * 4)
             st   == Bitmap_Extend_loop([data |-> data, oob |-> FALSE], 0, 0, 0,
                                        b.m_data, b.m_width, b.m_height, width, height)
         IN  [b EXCEPT !.m_data = st.data,
                       !.nalloc = @ + 1,
                       !.oob = st.oob]

-----------------------------------------------------------------------------
(* SetAlpha.  lvl is the instruction set the build targets: 0 none,        *)
(* 1 SSE2, 2 AVX2, 3 AVX512F (each includes the ones below it).            *)
(* st = [d, ptr, sz, w]: the array, the element offset of ptr, the pixels   *)
(* left, and the stores made so far.                                       *)

SimdLevels == 0..3

\* a store of n elements at element offset to
Write(to, n) == [to |-> to, n |-> n]

\* one of the stores w leaves an array of len elements
AnyOutside(w, len) == \E k \in 1..Len(w) : Outside(w[k].to, w[k].n, len)

\* one vector step of Bitmap::SetAlpha over n pixels: v | (alpha << 24), after
\* v & 0x00FFFFFF when alpha is not 0xFF; either way byte 3 of each pixel
\* becomes alpha and bytes 0..2 keep their value
Bitmap_SetAlpha_store(d, ptr, n, alpha) ==
    [j \in 1..Len(d) |->
        IF (j - 1 >= ptr) /\ (j - 1 < ptr + n * 4) /\ ((j - 1 - ptr) % 4 = 3)
        THEN alpha ELSE d[j]]

RECURSIVE Bitmap_SetAlpha_vec(_, _, _)
Bitmap_SetAlpha_vec(st, n, alpha) ==
    IF st.sz >= n
    THEN Bitmap_SetAlpha_vec([d   |-> Bitmap_SetAlpha_store(st.d, st.ptr, n, alpha),
                              ptr |-> st.ptr + n * 4,
                              sz  |-> st.sz - n,
                              w   |-> Append(st.w, Write(st.ptr, n * 4))], n, alpha)
    ELSE st

RECURSIVE Bitmap_SetAlpha_tail(_, _)
Bitmap_SetAlpha_tail(st, alpha) ==
    IF st.sz # 0
    THEN Bitmap_SetAlpha_tail([d   |-> Memset(st.d, st.ptr, alpha, 1),
                               ptr |-> st.ptr + 4,
                               sz  |-> st.sz - 1,
                               w   |-> Append(st.w, Write(st.ptr, 1))], alpha)
    ELSE st

\* as Bitmap_SetAlpha with the scalar loop running once more
Bitmap_SetAlpha_tailOneMore(b, alpha, lvl) ==
    LET s0 == [d |-> b.m_data, ptr |-> 0, sz |-> b.m_width * b.m_height, w |-> <<>>]
        s1 == IF lvl >= 3 THEN Bitmap_SetAlpha_vec(s0, 16, alpha) ELSE s0
        s2 == IF lvl >= 2 THEN Bitmap_SetAlpha_vec(s1, 8, alpha) ELSE s1
        s3 == IF lvl >= 1 THEN Bitmap_SetAlpha_vec(s2, 4, alpha) ELSE s2
        s4 == Bitmap_SetAlpha_tail([s3 EXCEPT !.ptr = @ + 3, !.sz = @ + 1], alpha)
    IN  [b EXCEPT !.m_data = s4.d,
                  !.writes = s4.w,
                  !.oob = AnyOutside(s4.w, Len(b.m_data))]

Bitmap_SetAlpha(b, alpha, lvl) ==
    LET s0 == [d |-> b.m_data, ptr |-> 0, sz |-> b.m_width * b.m_height, w |-> <<>>]
        s1 == IF lvl >= 3 THEN Bitmap_SetAlpha_vec(s0, 16, alpha) ELSE s0
        s2 == IF lvl >= 2 THEN Bitmap_SetAlpha_vec(s1, 8, alpha) ELSE s1
        s3 == IF lvl >= 1 THEN Bitmap_SetAlpha_vec(s2, 4, alpha) ELSE s2
        s4 == Bitmap_SetAlpha_tail([s3 EXCEPT !.ptr = @ + 3], alpha)
    IN  [b EXCEPT !.m_data = s4.d,
                  !.writes = s4.w,
                  !.oob = AnyOutside(s4.w, Len(b.m_data))]

\* _mm512_mask_blend_ps( 0x8888, ... ) and _mm256_blend_ps( ..., 0x88 ): float 3
\* of each of the n pixels is taken from alpha, the others from the array
BitmapHdr_SetAlpha_blend(d, ptr, n, alpha) ==
    [j \in 1..Len(d) |->
        IF (j - 1 >= ptr) /\ (j - 1 < ptr + n * 4) /\ ((j - 1 - ptr) % 4 = 3)
        THEN alpha ELSE d[j]]

RECURSIVE BitmapHdr_SetAlpha_vec(_, _, _)
BitmapHdr_SetAlpha_vec(st, n, alpha) ==
    IF st.sz >= n
    THEN BitmapHdr_SetAlpha_vec([d   |-> BitmapHdr_SetAlpha_blend(st.d, st.ptr, n, alpha),
                                 ptr |-> st.ptr + n * 4,
                                 sz  |-> st.sz - n,
                                 w   |-> Append(st.w, Write(st.ptr, n * 4))], n, alpha)
    ELSE st

RECURSIVE BitmapHdr_SetAlpha_tail(_, _)
BitmapHdr_SetAlpha_tail(st, alpha) ==
    IF st.sz # 0
    THEN BitmapHdr_SetAlpha_tail([d   |-> Memcpy(st.d, st.ptr, <<alpha>>, 0, 1),
                                  ptr |-> st.ptr + 4,
                                  sz  |-> st.sz - 1,
                                  w   |-> Append(st.w, Write(st.ptr, 1))], alpha)
    ELSE st

BitmapHdr_SetAlpha(b, alpha, lvl) ==
    LET s0 == [d |-> b.m_data, ptr |-> 0, sz |-> b.m_width * b.m_height, w |-> <<>>]
        s1 == IF lvl >= 3 THEN BitmapHdr_SetAlpha_vec(s0, 4, alpha) ELSE s0
        s2 == IF lvl >= 2 THEN BitmapHdr_SetAlpha_vec(s1, 2, alpha) ELSE s1
        s3 == BitmapHdr_SetAlpha_tail([s2 EXCEPT !.ptr = @ + 3], alpha)
    IN  [b EXCEPT !.m_data = s3.d,
                  !.writes = s3.w,
                  !.oob = AnyOutside(s3.w, Len(b.m_data))]

-----------------------------------------------------------------------------
(* TaskDispatch, the worker pool.  Its source is not part of the files     *)
(* modelled here; it is taken from section 6 of the specification: Queue   *)
(* enqueues an independent unit, NumWorkers reports the number of worker   *)
(* threads, Sync blocks until every queued unit has completed.  Units are  *)
(* taken in any order, by a worker thread or by the thread blocked in      *)
(* Sync, and run one element (a pixel, an output row) at a time.           *)

\* largest NumWorkers() of a pool
MaxWorkers == 1

\* pixels per unit of SetColorspace and of the chunked tone mapping: 16 * 1024
\* in the source, scaled down with the buffers so that a buffer of
\* MaxPoolWidth x MaxPoolHeight pixels spans several units
ChunkPixels == 2

\* largest width and height of a buffer whose work goes to the pool
MaxPoolWidth == 3
MaxPoolHeight == 2

\* Resize and ResizeNew calls made on the buffer in one run
MaxResizes == 1

Min(a, b) == IF a < b THEN a ELSE b

\* a pool with no unit queued or running
NoPool == [NumWorkers |-> 0, queue |-> <<>>, running |-> {}]

\* the closure handed to Queue: the function it calls (kind), its captured
\* pointers as element offsets (src, dst), its element count or split index
\* (n), its captured transform, operator or split count (arg), and the number
\* of elements it has processed so far (pos)
Unit(kind, src, dst, n, arg) ==
    [kind |-> kind, src |-> src, dst |-> dst, n |-> n, arg |-> arg, pos |-> 0]

TaskDispatch_Queue(t, u) == [t EXCEPT !.queue = Append(@, u)]

TaskDispatch_NumWorkers(t) == t.NumWorkers

\* the condition Sync waits for
TaskDispatch_Sync(t) == t.queue = <<>> /\ t.running = {}

\* t with the units of sequence us queued in order
RECURSIVE QueueAll(_, _)
QueueAll(t, us) ==
    IF us = <<>> THEN t ELSE QueueAll(TaskDispatch_Queue(t, Head(us)), Tail(us))

-----------------------------------------------------------------------------
(* The object a member function that may use the pool works on: the        *)
(* fields, and the state of the running call: the units it has queued      *)
(* (queued), the array or object it has allocated (newData), the           *)
(* stack-local STBIR_RESIZE (resize), the object it returns (result), and  *)
(* where it stands: at td->Sync() (pc = "Sync") or past its last statement *)
(* (pc = "return").                                                        *)

NoObject ==
    [cls |-> "none", m_width |-> 0, m_height |-> 0, m_data |-> <<>>,
     m_colorspace |-> "none", m_orientation |-> 0]

NoResize == [sw |-> 0, sh |-> 0, dw |-> 0, dh |-> 0, splits |-> 0]

NoCall ==
    [pc |-> "return", op |-> "none", args |-> <<>>, tdp |-> FALSE, pre |-> NoObject,
     queued |-> <<>>, newData |-> <<>>, resize |-> NoResize, calls |-> <<>>,
     hist |-> <<>>]

ThisTd ==
    [cls |-> cls, m_width |-> m_width, m_height |-> m_height, m_data |-> m_data,
     m_orientation |-> m_orientation, m_colorspace |-> m_colorspace,
     status |-> "ok", calls |-> <<>>, nalloc |-> 0, oob |-> FALSE,
     nomem |-> FALSE, atFree |-> <<>>, writes |-> <<>>, queued |-> <<>>,
     newData |-> call.newData, resize |-> call.resize, result |-> NoObject,
     pc |-> "return"]

-----------------------------------------------------------------------------
(* SetColorspace.  The colour transform (Little CMS) is an external        *)
(* library: a function of one pixel that leaves alpha alone                *)
(* (cmsFLAGS_COPY_ALPHA).  Its value on a colour channel is kept symbolic: *)
(* v * 3 + 1 stands for "v taken from BT.709 to BT.2020", v * 3 + 2 for    *)
(* "v taken from BT.2020 to BT.709", so that an element records every      *)
(* transform applied to it, in order.                                      *)

Colorspaces == {"BT709", "BT2020"}

cmsDoTransform_channel(transform, v) ==
    v * 3 + (IF transform = "BT709toBT2020" THEN 1 ELSE 2)

\* cmsDoTransform( transform, d + ptr, d + ptr, n ): n pixels in place
cmsDoTransform(transform, d, ptr, n) ==
    [j \in 1..Len(d) |->
        IF (j - 1 >= ptr) /\ (j - 1 < ptr + n * 4) /\ ((j - 1 - ptr) % 4 # 3)
        THEN cmsDoTransform_channel(transform, d[j])
        ELSE d[j]]

\* the loop with every unit after the first starting on the last pixel of
\* the unit before it
RECURSIVE BitmapHdr_SetColorspace_loop_overlap(_, _, _, _)
BitmapHdr_SetColorspace_loop_overlap(queued, ptr, sz, transform) ==
    IF sz > 0
    THEN LET chunk == Min(sz, ChunkPixels)
         IN  BitmapHdr_SetColorspace_loop_overlap(
                 Append(queued, Unit("cmsDoTransform", ptr, ptr, chunk, transform)),
                 ptr + chunk * 4 - 4, sz - chunk, transform)
    ELSE queued

\* the loop without the unit for the pixels left after the last full chunk
RECURSIVE BitmapHdr_SetColorspace_loop_noTail(_, _, _, _)
BitmapHdr_SetColorspace_loop_noTail(queued, ptr, sz, transform) ==
    IF sz >= ChunkPixels
    THEN BitmapHdr_SetColorspace_loop_noTail(
             Append(queued, Unit("cmsDoTransform", ptr, ptr, ChunkPixels, transform)),
             ptr + ChunkPixels * 4, sz - ChunkPixels, transform)
    ELSE queued

\* the while loop: one unit per chunk
RECURSIVE BitmapHdr_SetColorspace_loop(_, _, _, _)
BitmapHdr_SetColorspace_loop(queued, ptr, sz, transform) ==
    IF sz > 0
    THEN LET chunk == Min(sz, ChunkPixels)
         IN  BitmapHdr_SetColorspace_loop(
                 Append(queued, Unit("cmsDoTransform", ptr, ptr, chunk, transform)),
                 ptr + chunk * 4, sz - chunk, transform)
    ELSE queued

\* the end of SetColorspace without the assignment to m_colorspace
BitmapHdr_SetColorspace_end_noTag(b, colorspace) == [b EXCEPT !.pc = "return"]

\* the statements after the transform
BitmapHdr_SetColorspace_end(b, colorspace) ==
    [b EXCEPT !.m_colorspace = colorspace, !.pc = "return"]

\* SetColorspace without the early return on an equal colorspace
BitmapHdr_SetColorspace_noEarlyReturn(b, colorspace, tdp) ==
    LET transform ==
            CASE b.m_colorspace = "BT2020" /\ colorspace = "BT709" -> "BT2020toBT709"
              [] b.m_colorspace = "BT709" /\ colorspace = "BT2020" -> "BT709toBT2020"
              [] OTHER -> "none"
    IN  IF transform = "none"
        THEN Panic(b, "Invalid colorspace transform!")
        ELSE IF tdp
             THEN [b EXCEPT !.queued = BitmapHdr_SetColorspace_loop(
                                           <<>>, 0, b.m_width * b.m_height, transform),
                            !.pc = "Sync"]
             ELSE BitmapHdr_SetColorspace_end(
                      [b EXCEPT !.m_data = cmsDoTransform(
                                    transform, @, 0, b.m_width * b.m_height)],
                      colorspace)

\* SetColorspace( colorspace, td ) up to td->Sync(), or to its end when it
\* does not get there; tdp: td is not null
BitmapHdr_SetColorspace(b, colorspace, tdp) ==
    IF b.m_colorspace = colorspace
    THEN [b EXCEPT !.calls = <<"mclog Warning">>]
    ELSE LET transform ==
                 CASE b.m_colorspace = "BT2020" /\ colorspace = "BT709" -> "BT2020toBT709"
                   [] b.m_colorspace = "BT709" /\ colorspace = "BT2020" -> "BT709toBT2020"
                   [] OTHER -> "none"
         IN  IF transform = "none"
             THEN Panic(b, "Invalid colorspace transform!")
             ELSE IF tdp
                  THEN [b EXCEPT !.queued = BitmapHdr_SetColorspace_loop(
                                                <<>>, 0, b.m_width * b.m_height, transform),
                                 !.pc = "Sync"]
                  ELSE BitmapHdr_SetColorspace_end(
                           [b EXCEPT !.m_data = cmsDoTransform(
                                         transform, @, 0, b.m_width * b.m_height)],
                           colorspace)

\* BitmapHdrHalf::SetColorspace: the same statements on half-float elements
BitmapHdrHalf_SetColorspace_end(b, colorspace) == BitmapHdr_SetColorspace_end(b, colorspace)

BitmapHdrHalf_SetColorspace(b, colorspace, tdp) == BitmapHdr_SetColorspace(b, colorspace, tdp)

-----------------------------------------------------------------------------
(* Resize and ResizeNew with a pool handle.  The resampler is asked for    *)
(* NumWorkers() + 1 splits and answers with the number it has built, which *)
(* the code takes as the number of units; that number is the resampler's   *)
(* choice, at least 1, at most the number asked for and at most the number *)
(* of output rows.  Split i of s works on the output rows from             *)
(* (i * dh) / s up to, not including, ((i + 1) * dh) / s.                  *)

\* the values stbir_build_samplers_with_splits( &resize, splits ) can return
stbir_build_samplers_with_splits(dh, splits) == 1..Min(splits, dh)

\* the output rows y0 .. y1 - 1 of the resampled image, written into dst
stbir_resize_rows(src, sw, sh, dst, dw, dh, y0, y1) ==
    [j \in 1..Len(dst) |->
        IF (j > y0 * dw * 4) /\ (j <= y1 * dw * 4)
        THEN LET p == (j - 1) \div 4
                 c == (j - 1) % 4
                 x == p % dw
                 y == p \div dw
                 sx == (x * sw) \div dw
                 sy == (y * sh) \div dh
             IN  src[(sy * sw + sx) * 4 + c + 1]
        ELSE dst[j]]

\* first output row of split i of s
SplitRow(i, s, dh) == (i * dh) \div s

\* the for loop with the index starting at 1
Resize_loop_from1(threads) ==
    [i \in 1..(threads - 1) |-> Unit("stbir_resize_extended_split", 0, 0, i, threads)]

\* the for loop: one unit per split index 0 .. threads - 1
Resize_loop(threads) ==
    [i \in 1..threads |-> Unit("stbir_resize_extended_split", 0, 0, i - 1, threads)]

\* Resize( width, height, td ), td not null, with the assignments to m_data,
\* m_width and m_height made before td->Sync()
Bitmap_Resize_td_early(b, width, height, threads) ==
    LET newData == NewArray(width * height * 4)
    IN  [b EXCEPT !.newData = newData,
                  !.resize = [sw |-> b.m_width, sh |-> b.m_height,
                              dw |-> width, dh |-> height, splits |-> threads],
                  !.queued = Resize_loop(threads),
                  !.m_data = newData,
                  !.m_width = width,
                  !.m_height = height,
                  !.nalloc = @ + 1,
                  !.pc = "Sync"]

\* Resize( width, height, td ), td not null, up to td->Sync(); threads is what
\* stbir_build_samplers_with_splits returned
Bitmap_Resize_td(b, width, height, threads) ==
    LET newData == NewArray(width * height * 4)
    IN  [b EXCEPT !.newData = newData,
                  !.resize = [sw |-> b.m_width, sh |-> b.m_height,
                              dw |-> width, dh |-> height, splits |-> threads],
                  !.queued = Resize_loop(threads),
                  !.nalloc = @ + 1,
                  !.pc = "Sync"]

\* Resize from the return of td->Sync(): stbir_free_samplers, delete[] m_data
\* and the three assignments
Bitmap_Resize_end(b) ==
    [b EXCEPT !.m_data = b.newData,
              !.m_width = b.resize.dw,
              !.m_height = b.resize.dh,
              !.newData = <<>>,
              !.resize = NoResize,
              !.pc = "return"]

\* the object ResizeNew returns: std::make_unique<T>( width, height ) for
\* Bitmap, ( width, height, m_colorspace ) for the HDR classes, with data d
ResizeNew_ret(b, width, height, d) ==
    [cls |-> b.cls, m_width |-> width, m_height |-> height, m_data |-> d,
     m_colorspace |-> b.m_colorspace, m_orientation |-> 0]

\* ResizeNew with the new object given the source's dimensions
Bitmap_ResizeNew_end_srcDims(b) ==
    [b EXCEPT !.result = ResizeNew_ret(b, b.m_width, b.m_height, b.newData),
              !.newData = <<>>,
              !.resize = NoResize,
              !.pc = "return"]

\* ResizeNew from the return of td->Sync(): stbir_free_samplers, return ret
Bitmap_ResizeNew_end(b) ==
    [b EXCEPT !.result = ResizeNew_ret(b, b.resize.dw, b.resize.dh, b.newData),
              !.newData = <<>>,
              !.resize = NoResize,
              !.pc = "return"]

\* ResizeNew( width, height, td ) up to td->Sync(), or to its end when td is
\* null; threads is what stbir_build_samplers_with_splits returned
Bitmap_ResizeNew(b, width, height, tdp, threads) ==
    LET retData == NewArray(width * height * 4)
        r       == [b EXCEPT !.resize = [sw |-> b.m_width, sh |-> b.m_height,
                                     dw |-> width, dh |-> height,
                                     splits |-> IF tdp THEN threads ELSE 0],
                         !.nalloc = @ + 1]
    IN  IF tdp
        THEN [r EXCEPT !.newData = retData, !.queued = Resize_loop(threads), !.pc = "Sync"]
        ELSE Bitmap_ResizeNew_end(
                 [r EXCEPT !.newData = stbir_resize_extended(b.m_data, b.m_width, b.m_height,
                                                             retData, width, height)])

\* BitmapHdr and BitmapHdrHalf: the same statements on float and half-float
\* elements
BitmapHdr_Resize_td(b, width, height, threads) == Bitmap_Resize_td(b, width, height, threads)

BitmapHdr_Resize_end(b) == Bitmap_Resize_end(b)

BitmapHdr_ResizeNew(b, width, height, tdp, threads) ==
    Bitmap_ResizeNew(b, width, height, tdp, threads)

BitmapHdr_ResizeNew_end(b) == Bitmap_ResizeNew_end(b)

BitmapHdrHalf_Resize(b, width, height) == BitmapHdr_Resize(b, width, height)

BitmapHdrHalf_Resize_td(b, width, height, threads) ==
    Bitmap_Resize_td(b, width, height, threads)

BitmapHdrHalf_Resize_end(b) == Bitmap_Resize_end(b)

BitmapHdrHalf_ResizeNew(b, width, height, tdp, threads) ==
    Bitmap_ResizeNew(b, width, height, tdp, threads)

BitmapHdrHalf_ResizeNew_end(b) == Bitmap_ResizeNew_end(b)

-----------------------------------------------------------------------------
(* Tone mapping.  The operator is an external function of one HDR pixel    *)
(* that yields the four bytes of one SDR pixel; what it computes is kept   *)
(* symbolic here, a byte that depends on the operator, on all four         *)
(* elements of the pixel and on the channel.                               *)

ToneMapOperators == {"PbrNeutral"}

ToneMap_channel(op, px, c) ==
    (px[1] * 7 + px[2] * 5 + px[3] * 3 + px[4] + c * 11
        + (IF op = "PbrNeutral" THEN 0 ELSE 1)) % 256

\* ToneMap::Process( op, (uint32_t*)( dst + to ), src + from, sz ): sz pixels,
\* four floats in and four bytes out per pixel
ToneMap_Process(op, dst, to, src, from, sz) ==
    [j \in 1..Len(dst) |->
        IF (j - 1 >= to) /\ (j - 1 < to + sz * 4)
        THEN LET k == (j - 1 - to) \div 4
                 c == (j - 1 - to) % 4
             IN  ToneMap_channel(op, <<src[from + 4 * k + 1], src[from + 4 * k + 2],
                                       src[from + 4 * k + 3], src[from + 4 * k + 4]>>, c)
        ELSE dst[j]]

\* std::make_unique<Bitmap>( width, height ) with data d
NewBitmap(width, height, d) ==
    [cls |-> "Bitmap", m_width |-> width, m_height |-> height, m_data |-> d,
     m_colorspace |-> "none", m_orientation |-> 0]

\* Tonemap without the CheckPanic
BitmapHdr_Tonemap_noCheck(b, op) ==
    LET bmp == NewArray(b.m_width * b.m_height * 4)
    IN  [b EXCEPT !.result = NewBitmap(b.m_width, b.m_height,
                                       ToneMap_Process(op, bmp, 0, b.m_data, 0,
                                                       b.m_width * b.m_height)),
                  !.nalloc = @ + 1]

\* BitmapHdr::Tonemap( op )
BitmapHdr_Tonemap(b, op) ==
    IF b.m_colorspace # "BT709"
    THEN Panic(b, "Tone mapping requires BT.709 colorspace")
    ELSE LET bmp == NewArray(b.m_width * b.m_height * 4)
         IN  [b EXCEPT !.result = NewBitmap(b.m_width, b.m_height,
                                            ToneMap_Process(op, bmp, 0, b.m_data, 0,
                                                            b.m_width * b.m_height)),
                       !.nalloc = @ + 1]

\* the while loop with dst advanced by one element per pixel
RECURSIVE ExrLoader_Load_loop_dstPixels(_, _, _, _, _)
ExrLoader_Load_loop_dstPixels(queued, src, dst, sz, tonemap) ==
    IF sz > 0
    THEN LET chunk == Min(sz, ChunkPixels)
         IN  ExrLoader_Load_loop_dstPixels(
                 Append(queued, Unit("ToneMap::Process", src, dst, chunk, tonemap)),
                 src + chunk * 4, dst + chunk, sz - chunk, tonemap)
    ELSE queued

\* the while loop of ExrLoader::Load: one unit per chunk
RECURSIVE ExrLoader_Load_loop(_, _, _, _, _)
ExrLoader_Load_loop(queued, src, dst, sz, tonemap) ==
    IF sz > 0
    THEN LET chunk == Min(sz, ChunkPixels)
         IN  ExrLoader_Load_loop(
                 Append(queued, Unit("ToneMap::Process", src, dst, chunk, tonemap)),
                 src + chunk * 4, dst + chunk * 4, sz - chunk, tonemap)
    ELSE queued

\* ExrLoader::Load from the return of m_td->Sync(): return bmp
ExrLoader_Load_end(hdr) ==
    [hdr EXCEPT !.result = NewBitmap(hdr.m_width, hdr.m_height, hdr.newData),
                !.newData = <<>>,
                !.pc = "return"]

\* ExrLoader::Load() after hdr = LoadHdr( Colorspace::BT709 ), up to
\* m_td->Sync(), or to its end when m_td is null
ExrLoader_Load(hdr, tonemap, tdp) ==
    IF tdp
    THEN [hdr EXCEPT !.newData = NewArray(hdr.m_width * hdr.m_height * 4),
                     !.queued = ExrLoader_Load_loop(<<>>, 0, 0, hdr.m_width * hdr.m_height,
                                                    tonemap),
                     !.nalloc = @ + 1,
                     !.pc = "Sync"]
    ELSE BitmapHdr_Tonemap(hdr, tonemap)

\* the while loop of ImageProvider::Worker
RECURSIVE ImageProvider_Worker_loop(_, _, _, _)
ImageProvider_Worker_loop(queued, src, dst, sz) ==
    IF sz > 0
    THEN LET chunk == Min(sz, ChunkPixels)
         IN  ImageProvider_Worker_loop(
                 Append(queued, Unit("ToneMap::Process", src, dst, chunk, "PbrNeutral")),
                 src + chunk * 4, dst + chunk * 4, sz - chunk)
    ELSE queued

\* ImageProvider::Worker, job.hdr false, from bitmapHdr =
\* loader->LoadHdr( Colorspace::BT709 ) to m_td.Sync()
ImageProvider_Worker_tonemap(bitmapHdr) ==
    [bitmapHdr EXCEPT
        !.newData = NewArray(bitmapHdr.m_width * bitmapHdr.m_height * 4),
        !.queued = ImageProvider_Worker_loop(<<>>, 0, 0,
                                             bitmapHdr.m_width * bitmapHdr.m_height),
        !.nalloc = @ + 1,
        !.pc = "Sync"]

\* ImageProvider::Worker after m_td.Sync(): bitmap holds the tone-mapped image
ImageProvider_Worker_tonemap_end(bitmapHdr) ==
    [bitmapHdr EXCEPT
        !.result = NewBitmap(bitmapHdr.m_width, bitmapHdr.m_height, bitmapHdr.newData),
        !.newData = <<>>,
        !.pc = "return"]

-----------------------------------------------------------------------------
(* ImageProvider and Viewport: the two threads that hand units to the same  *)
(* pool.  Viewport creates the pool with hardware_concurrency() - 1        *)
(* workers and passes it to the ImageProvider, whose worker thread loads   *)
(* the images; Viewport::LoadImage runs on the thread of the window's      *)
(* events.  Texture upload and drawing are not modelled.                   *)

\* LoadImage calls made in one run
MaxJobs == 2

\* regular files in the directory of the image, the image among them
MaxFiles == 2

\* what GetImageLoader finds for a file: no loader, a loader of an SDR format,
\* the EXR loader (IsHdr, not PreferHdr), a loader of an HDR format that
\* prefers HDR
Loaders == {"none", "sdr", "exr", "hdr"}

NoJob == [id |-> -1, hdr |-> FALSE, loader |-> "none"]

\* threads that call LoadImage, Cancel, CancelAll and the destructor
MaxClients == 2

Clients == 1..MaxClients

\* the thread the constructor starts with Worker()
WorkerThread == 0

\* a client thread outside the provider's functions.  In a call, pc is the
\* statement it is at, id the local id, job the local job, tmp the local tmp
IdleClient == [pc |-> "idle", id |-> -1, job |-> NoJob, tmp |-> <<>>]

\* ImageProvider::ImageProvider; pc is the position of the worker thread:
\* in m_cv.wait ("wait"), in m_td.Sync() ("Sync"), or past the load, before
\* the callback ("callback")
ImageProvider_ctor ==
    [m_shutdown |-> FALSE, m_currentJob |-> -1, m_nextId |-> 0, m_jobs |-> <<>>,
     pc |-> "wait", job |-> NoJob, callbacks |-> <<>>,
     m_lock |-> -1, bitmap |-> FALSE, cancelled |-> FALSE,
     client |-> [c \in Clients |-> IdleClient], accepted |-> {}, log |-> <<>>]

\* ImageProvider::LoadImage( path, hdr, callback, userData ); loader is what
\* the file at path turns out to be
ImageProvider_LoadImage(p, hdr, loader) ==
    [p EXCEPT !.m_nextId = @ + 1,
              !.m_jobs = Append(@, [id |-> p.m_nextId, hdr |-> hdr, loader |-> loader])]

\* ImageProvider::Cancel( id ); the callback it makes is recorded in callbacks
ImageProvider_Cancel(p, id) ==
    IF p.m_currentJob = id
    THEN [p EXCEPT !.m_currentJob = -1]
    ELSE IF \E k \in 1..Len(p.m_jobs) : p.m_jobs[k].id = id
         THEN [p EXCEPT !.m_jobs = SelectSeq(@, LAMBDA job : job.id # id),
                        !.callbacks = Append(@, <<id, "Cancelled">>)]
         ELSE p

\* The functions of ImageProvider statement by statement, for threads that
\* run them concurrently.  m_lock is the thread that holds the mutex, -1
\* when it is free; a part of a function that runs under the mutex is one
\* step, taken when the mutex is free.  log lists the callbacks made, each
\* with the function that made it and whether its thread held m_lock;
\* accepted is the set of the ids LoadImage has returned.
Callback(p, thread, job, result) ==
    [p EXCEPT !.log = Append(@, [id |-> job.id, result |-> result,
                                 from |-> IF thread = WorkerThread THEN "Worker"
                                          ELSE p.client[thread].pc,
                                 locked |-> p.m_lock = thread])]

\* const auto id = m_nextId++;
ImageProvider_LoadImage_id(p, c, hdr, loader) ==
    [p EXCEPT !.m_nextId = @ + 1,
              !.client[c] = [pc |-> "LoadImage", id |-> p.m_nextId,
                             job |-> [id |-> p.m_nextId, hdr |-> hdr, loader |-> loader],
                             tmp |-> <<>>]]

\* std::lock_guard lock( m_lock ); m_jobs.emplace_back( ... ); return id;
ImageProvider_LoadImage_locked(p, c) ==
    [p EXCEPT !.m_jobs = Append(@, p.client[c].job),
              !.accepted = @ \cup {p.client[c].id},
              !.client[c] = IdleClient]

\* as ImageProvider_Cancel_locked with the job left in m_jobs
ImageProvider_Cancel_locked_noErase(p, c, id) ==
    IF p.m_currentJob = id
    THEN [p EXCEPT !.m_currentJob = -1]
    ELSE IF \E k \in 1..Len(p.m_jobs) : p.m_jobs[k].id = id
         THEN LET it == CHOOSE k \in 1..Len(p.m_jobs) :
                            /\ p.m_jobs[k].id = id
                            /\ \A j \in 1..(k - 1) : p.m_jobs[j].id # id
              IN  [p EXCEPT !.m_lock = -1,
                            !.client[c] = [pc |-> "Cancel", id |-> id,
                                           job |-> p.m_jobs[it], tmp |-> <<>>]]
         ELSE p

\* as ImageProvider_Cancel_locked without lock.unlock()
ImageProvider_Cancel_locked_noUnlock(p, c, id) ==
    IF p.m_currentJob = id
    THEN [p EXCEPT !.m_currentJob = -1]
    ELSE IF \E k \in 1..Len(p.m_jobs) : p.m_jobs[k].id = id
         THEN LET it == CHOOSE k \in 1..Len(p.m_jobs) :
                            /\ p.m_jobs[k].id = id
                            /\ \A j \in 1..(k - 1) : p.m_jobs[j].id # id
              IN  [p EXCEPT !.m_jobs = SubSeq(@, 1, it - 1) \o SubSeq(@, it + 1, Len(@)),
                            !.m_lock = c,
                            !.client[c] = [pc |-> "Cancel", id |-> id,
                                           job |-> p.m_jobs[it], tmp |-> <<>>]]
         ELSE p

\* ImageProvider::Cancel( id ) from std::unique_lock lock( m_lock ) to
\* lock.unlock(), or to the return when the job is not in m_jobs
ImageProvider_Cancel_locked(p, c, id) ==
    IF p.m_currentJob = id
    THEN [p EXCEPT !.m_currentJob = -1]
    ELSE IF \E k \in 1..Len(p.m_jobs) : p.m_jobs[k].id = id
         THEN LET it == CHOOSE k \in 1..Len(p.m_jobs) :
                            /\ p.m_jobs[k].id = id
                            /\ \A j \in 1..(k - 1) : p.m_jobs[j].id # id
              IN  [p EXCEPT !.m_jobs = SubSeq(@, 1, it - 1) \o SubSeq(@, it + 1, Len(@)),
                            !.m_lock = -1,
                            !.client[c] = [pc |-> "Cancel", id |-> id,
                                           job |-> p.m_jobs[it], tmp |-> <<>>]]
         ELSE p

\* job.callback( job.userData, job.id, Result::Cancelled, ... ) in Cancel and
\* the return, where the unique_lock releases the mutex if it owns it
ImageProvider_Cancel_callback(p, c) ==
    LET p1 == Callback(p, c, p.client[c].job, "Cancelled")
    IN  [p1 EXCEPT !.m_lock = IF @ = c THEN -1 ELSE @,
                   !.client[c] = IdleClient]

\* ImageProvider::CancelAll() from m_lock.lock() to m_lock.unlock()
ImageProvider_CancelAll_locked(p, c) ==
    [p EXCEPT !.m_jobs = <<>>,
              !.m_currentJob = -1,
              !.m_lock = -1,
              !.client[c] = IF p.m_jobs = <<>> THEN IdleClient
                            ELSE [pc |-> "CancelAll", id |-> -1, job |-> NoJob,
                                  tmp |-> p.m_jobs]]

\* one round of for( auto& job : tmp ) job.callback( ..., Result::Cancelled, ... )
ImageProvider_CancelAll_loop(p, c) ==
    LET tmp == p.client[c].tmp
        p1  == Callback(p, c, Head(tmp), "Cancelled")
    IN  [p1 EXCEPT !.client[c] = IF Tail(tmp) = <<>> THEN IdleClient
                                 ELSE [@ EXCEPT !.tmp = Tail(tmp)]]

\* ImageProvider::~ImageProvider up to m_thread.join()
ImageProvider_dtor(p, c) ==
    [p EXCEPT !.m_shutdown = TRUE,
              !.client[c] = [IdleClient EXCEPT !.pc = "join"]]

\* ImageProvider::Worker: m_cv.wait returns; to the return when m_shutdown
\* is set, else to lock.unlock() with the job taken from the back of m_jobs
ImageProvider_Worker_wait(p) ==
    IF p.m_shutdown
    THEN [p EXCEPT !.pc = "done"]
    ELSE LET job == p.m_jobs[Len(p.m_jobs)]
         IN  [p EXCEPT !.m_jobs = SubSeq(@, 1, Len(@) - 1),
                       !.m_currentJob = job.id,
                       !.job = job,
                       !.m_lock = -1,
                       !.pc = "load"]

\* the load, without the mutex: bitmap or bitmapHdr is set when
\* GetImageLoader finds a loader for the file and the loader returns one
ImageProvider_Worker_load(p, loaded) ==
    [p EXCEPT !.bitmap = loaded, !.pc = "check"]

\* lock.lock(); const bool cancelled = m_currentJob == -1; lock.unlock();
ImageProvider_Worker_check(p) ==
    [p EXCEPT !.cancelled = p.m_currentJob = -1, !.m_lock = -1, !.pc = "callback"]

\* the callback of the job: Cancelled, Success or Error
ImageProvider_Worker_callback(p) ==
    LET result == IF p.cancelled THEN "Cancelled"
                  ELSE IF p.bitmap THEN "Success" ELSE "Error"
        p1     == Callback(p, WorkerThread, p.job, result)
    IN  [p1 EXCEPT !.pc = "relock"]

\* lock.lock() at the end of the loop body, the loop condition, and
\* m_currentJob = -1; m_cv.wait( lock, ... ), which releases the mutex
ImageProvider_Worker_relock(p) ==
    IF p.m_shutdown
    THEN [p EXCEPT !.pc = "done", !.m_lock = -1,
                   !.job = NoJob, !.bitmap = FALSE, !.cancelled = FALSE]
    ELSE [p EXCEPT !.pc = "wait", !.m_currentJob = -1, !.m_lock = -1,
                   !.job = NoJob, !.bitmap = FALSE, !.cancelled = FALSE]

\* Viewport::Viewport; pc is the position of the event thread: outside
\* LoadImage ("idle") or, holding m_lock, in m_td->Sync() ("Sync")
Viewport_ctor ==
    [pc |-> "idle", m_currentJob |-> -1, m_isBusy |-> FALSE, fileList |-> <<>>,
     tmp |-> <<>>, m_fileList |-> <<>>]

\* Viewport::ImageHandler( id, result, data ), without the texture upload:
\* the statements under m_lock
Viewport_ImageHandler(v, id, result) ==
    IF v.m_currentJob = id
    THEN [v EXCEPT !.m_currentJob = -1, !.m_isBusy = FALSE]
    ELSE v

\* the for loop of FindLoadableImages: one unit per batch of files
RECURSIVE Viewport_FindLoadableImages_loop(_, _, _, _, _, _)
Viewport_FindLoadableImages_loop(queued, n, start, size, batchSize, cpus) ==
    IF (n < cpus) /\ (start < size)
    THEN Viewport_FindLoadableImages_loop(
             Append(queued, Unit("GetImageLoader", start, n,
                                 Min(start + batchSize, size) - start, 0)),
             n + 1, start + batchSize, size, batchSize, cpus)
    ELSE queued

\* FindLoadableImages( fileList ) up to m_td->Sync(): the units it queues
Viewport_FindLoadableImages(fileList, cpus) ==
    LET batchSize == (Len(fileList) + cpus - 1) \div cpus
    IN  Viewport_FindLoadableImages_loop(<<>>, 0, 0, Len(fileList), batchSize, cpus)

\* the concatenation of the sequences of tmp
RECURSIVE Flatten(_)
Flatten(tmp) == IF tmp = <<>> THEN <<>> ELSE Head(tmp) \o Flatten(Tail(tmp))

\* Viewport::LoadImage( path, scanDirectory ) up to m_td->Sync() in
\* FindLoadableImages, or to its end when scanDirectory is false.  pv is the
\* pair of the provider and the viewport; dir lists the files of the
\* directory, the image first, each with the loader GetImageLoader finds
Viewport_LoadImage(pv, hdr, scanDirectory, dir, cpus) ==
    LET p  == pv[1]
        v  == pv[2]
        id == p.m_nextId
        p1 == ImageProvider_LoadImage(p, hdr, dir[1])
        p2 == IF v.m_currentJob # -1 THEN ImageProvider_Cancel(p1, v.m_currentJob) ELSE p1
        v1 == IF Len(p2.callbacks) > Len(p1.callbacks)
              THEN Viewport_ImageHandler(v, v.m_currentJob, "Cancelled")
              ELSE v
        v2 == [v1 EXCEPT !.m_currentJob = id, !.m_isBusy = TRUE]
    IN  IF scanDirectory
        THEN <<p2, [v2 EXCEPT !.fileList = dir,
                              !.tmp = [n \in 1..cpus |-> <<>>],
                              !.pc = "Sync"],
               Viewport_FindLoadableImages(dir, cpus)>>
        ELSE <<p2, v2, <<>>>>

\* Viewport::LoadImage from the return of m_td->Sync(): the rest of
\* FindLoadableImages, then SetFileList with the image as origin; st is the
\* termination status
Viewport_LoadImage_end(v, st) ==
    LET files == Flatten(v.tmp)
        v1    == [v EXCEPT !.pc = "idle", !.tmp = <<>>, !.fileList = <<>>]
    IN  IF files = <<>>
        THEN <<v1, st>>
        ELSE IF \E k \in 1..Len(files) : files[k] = 1
             THEN <<[v1 EXCEPT !.m_fileList = files], st>>
             ELSE <<[v1 EXCEPT !.m_fileList = files], "Origin not found in file list">>

-----------------------------------------------------------------------------
(* Conversion constructors between BitmapHdr (float) and BitmapHdrHalf     *)
(* (half float).  An element is an integer; the half h stands for the      *)
(* float 2 * h, so that the conversion to half rounds and the conversion   *)
(* to float is exact.  f16c says whether the build has __F16C__, lvl which *)
(* vector instruction set it has.  st = [dst, pos, sz, w]: the destination,*)
(* the element offset of src and dst, the elements left, the stores made.  *)

\* half_float::half( float ), _mm256_cvtps_ph, _mm512_cvtps_ph: round to the
\* nearest half
half_float_half(f) == (f + 1) \div 2

\* float( half ), _mm256_cvtph_ps, _mm512_cvtph_ps
half_float_float(h) == h * 2

RECURSIVE FloatToHalf_loop(_, _, _)
FloatToHalf_loop(st, src, n) ==
    IF st.sz >= n
    THEN FloatToHalf_loop(
             [dst |-> [j \in 1..Len(st.dst) |->
                          IF (j - 1 >= st.pos) /\ (j - 1 < st.pos + n)
                          THEN half_float_half(src[j]) ELSE st.dst[j]],
              pos |-> st.pos + n,
              sz  |-> st.sz - n,
              w   |-> Append(st.w, Write(st.pos, n))], src, n)
    ELSE st

\* FloatToHalf( src, dst, sz ); the scalar loop is the loop with n = 1
FloatToHalf(src, dst, sz, lvl, f16c) ==
    LET s0 == [dst |-> dst, pos |-> 0, sz |-> sz, w |-> <<>>]
        s1 == IF f16c /\ lvl >= 3 THEN FloatToHalf_loop(s0, src, 16) ELSE s0
        s2 == IF f16c /\ lvl >= 2 THEN FloatToHalf_loop(s1, src, 8) ELSE s1
    IN  FloatToHalf_loop(s2, src, 1)

RECURSIVE HalfToFloat_loop(_, _, _)
HalfToFloat_loop(st, src, n) ==
    IF st.sz >= n
    THEN HalfToFloat_loop(
             [dst |-> [j \in 1..Len(st.dst) |->
                          IF (j - 1 >= st.pos) /\ (j - 1 < st.pos + n)
                          THEN half_float_float(src[j]) ELSE st.dst[j]],
              pos |-> st.pos + n,
              sz  |-> st.sz - n,
              w   |-> Append(st.w, Write(st.pos, n))], src, n)
    ELSE st

\* HalfToFloat( src, dst, sz )
HalfToFloat(src, dst, sz, lvl, f16c) ==
    LET s0 == [dst |-> dst, pos |-> 0, sz |-> sz, w |-> <<>>]
        s1 == IF f16c /\ lvl >= 3 THEN HalfToFloat_loop(s0, src, 16) ELSE s0
        s2 == IF f16c /\ lvl >= 2 THEN HalfToFloat_loop(s1, src, 8) ELSE s1
    IN  HalfToFloat_loop(s2, src, 1)

\* as the constructor with sz = m_width * m_height
BitmapHdrHalf_BitmapHdrHalf_szPixels(bmp, lvl, f16c) ==
    LET data == NewArray(bmp.m_width * bmp.m_height * 4)
        st   == FloatToHalf(bmp.m_data, data, bmp.m_width * bmp.m_height, lvl, f16c)
    IN  [bmp EXCEPT !.result = [cls |-> "BitmapHdrHalf", m_width |-> bmp.m_width,
                                m_height |-> bmp.m_height, m_data |-> st.dst,
                                m_colorspace |-> bmp.m_colorspace, m_orientation |-> 0],
                    !.nalloc = @ + 1,
                    !.writes = st.w,
                    !.oob = AnyOutside(st.w, Len(data))]

\* BitmapHdrHalf::BitmapHdrHalf( const BitmapHdr& bmp ); the class has no
\* orientation member, the record's field is 0
BitmapHdrHalf_BitmapHdrHalf(bmp, lvl, f16c) ==
    LET data == NewArray(bmp.m_width * bmp.m_height * 4)
        st   == FloatToHalf(bmp.m_data, data, bmp.m_width * bmp.m_height * 4, lvl, f16c)
    IN  [bmp EXCEPT !.result = [cls |-> "BitmapHdrHalf", m_width |-> bmp.m_width,
                                m_height |-> bmp.m_height, m_data |-> st.dst,
                                m_colorspace |-> bmp.m_colorspace, m_orientation |-> 0],
                    !.nalloc = @ + 1,
                    !.writes = st.w,
                    !.oob = AnyOutside(st.w, Len(data))]

\* BitmapHdr::BitmapHdr( const BitmapHdrHalf& bmp ).  m_orientation has no
\* initializer: its value is indeterminate, here the argument indet
BitmapHdr_BitmapHdr(bmp, lvl, f16c, indet) ==
    LET data == NewArray(bmp.m_width * bmp.m_height * 4)
        st   == HalfToFloat(bmp.m_data, data, bmp.m_width * bmp.m_height * 4, lvl, f16c)
    IN  [bmp EXCEPT !.result = [cls |-> "BitmapHdr", m_width |-> bmp.m_width,
                                m_height |-> bmp.m_height, m_data |-> st.dst,
                                m_colorspace |-> bmp.m_colorspace,
                                m_orientation |-> indet],
                    !.nalloc = @ + 1,
                    !.writes = st.w,
                    !.oob = AnyOutside(st.w, Len(data))]

\* Bitmap::Bitmap( width, height, orientation ): the array is not written
Bitmap_Bitmap(width, height, orientation) ==
    [cls |-> "Bitmap", m_width |-> width, m_height |-> height,
     m_data |-> NewArray(width * height * 4), m_colorspace |-> "none",
     m_orientation |-> orientation]

\* BitmapHdr::BitmapHdr( width, height, colorspace, orientation )
BitmapHdr_BitmapHdr_dims(width, height, colorspace, orientation) ==
    [cls |-> "BitmapHdr", m_width |-> width, m_height |-> height,
     m_data |-> NewArray(width * height * 4), m_colorspace |-> colorspace,
     m_orientation |-> orientation]

\* Bitmap::Bitmap( Bitmap&& other ): the pair of the object built and of
\* other after the call.  m_orientation is not in the initializer list: its
\* value is indeterminate, here the argument indet.  <<>> is nullptr
Bitmap_Bitmap_move(other, indet) ==
    <<[cls |-> "Bitmap", m_width |-> other.m_width, m_height |-> other.m_height,
       m_data |-> other.m_data, m_colorspace |-> "none", m_orientation |-> indet],
      [other EXCEPT !.m_data = <<>>]>>

\* Bitmap& Bitmap::operator=( Bitmap&& other ): the pair of *this and of
\* other after the call
Bitmap_operator_assign(this, other) ==
    <<[this EXCEPT !.m_width = other.m_width, !.m_height = other.m_height,
                   !.m_data = other.m_data],
      [other EXCEPT !.m_width = this.m_width, !.m_height = this.m_height,
                    !.m_data = this.m_data]>>

-----------------------------------------------------------------------------
(* State machine *)

Orientations == (0 - OrientSlack)..(8 + OrientSlack)

Dims == 1..MaxDim

NewDims == 1..MaxNewDim

\* the fields of the object as one record
Fields == [m_width |-> m_width, m_height |-> m_height, m_data |-> m_data,
           m_orientation |-> m_orientation]

\* a decoder constructs the buffer with its dimensions and the raw orientation
\* and fills it; every element gets a marker of its own
Init ==
    /\ cls \in {"Bitmap", "BitmapHdr"}
    /\ m_width \in Dims
    /\ m_height \in Dims
    /\ m_orientation \in Orientations
    /\ m_data = [i \in 1..m_width * m_height * 4 |-> i]
    /\ status = "ok"
    /\ last = [op |-> "ctor", args |-> <<>>, pre |-> Fields,
               calls |-> <<>>, nalloc |-> 1, oob |-> FALSE, atFree |-> <<>>,
               writes |-> <<>>]
    /\ nops = 0
    /\ m_colorspace = IF cls = "Bitmap" THEN "none" ELSE "BT709"
    /\ td = NoPool
    /\ call = NoCall
    /\ ret = NoObject
    /\ provider = ImageProvider_ctor
    /\ viewport = Viewport_ctor

\* the call op( args ) returned, or ended, with the object as in r
Return(r, op, args) ==
    /\ m_width' = r.m_width
    /\ m_height' = r.m_height
    /\ m_data' = r.m_data
    /\ m_orientation' = r.m_orientation
    /\ status' = r.status
    /\ last' = [op |-> op, args |-> args, pre |-> Fields,
                calls |-> r.calls, nalloc |-> r.nalloc, oob |-> r.oob,
                atFree |-> r.atFree, writes |-> r.writes]
    /\ nops' = nops + 1
    /\ UNCHANGED <<cls, tdvars, ivvars>>

\* the object is of class c, the process is alive and a further call is made
Live(c) == status = "ok" /\ cls = c /\ nops < MaxOps

BitmapResize ==
    /\ Live("Bitmap")
    /\ \E width \in NewDims, height \in NewDims :
          Return(Bitmap_Resize(This, width, height), "Resize", <<width, height>>)

\* a write outside the new array is undefined behaviour: the call may return
\* with the writes inside the array done, or the process may die
BitmapExtend ==
    /\ Live("Bitmap")
    /\ \E width \in NewDims, height \in NewDims :
          LET r == Bitmap_Extend(This, width, height)
          IN  \/ Return(r, "Extend", <<width, height>>)
              \/ /\ r.oob
                 /\ Return([r EXCEPT !.status = "crash"], "Extend", <<width, height>>)

BitmapSetAlpha ==
    /\ Live("Bitmap")
    /\ \E alpha \in AlphaVals, lvl \in SimdLevels :
          Return(Bitmap_SetAlpha(This, alpha, lvl), "SetAlpha", <<alpha, lvl>>)

BitmapNormalizeOrientation ==
    /\ Live("Bitmap")
    /\ Return(Bitmap_NormalizeOrientation(This), "NormalizeOrientation", <<>>)

BitmapFlipVertical ==
    /\ Live("Bitmap")
    /\ Return(Bitmap_FlipVertical(This), "FlipVertical", <<>>)

BitmapFlipHorizontal ==
    /\ Live("Bitmap")
    /\ Return(Bitmap_FlipHorizontal(This), "FlipHorizontal", <<>>)

BitmapRotate90 ==
    /\ Live("Bitmap")
    /\ Return(Bitmap_Rotate90(This), "Rotate90", <<>>)

BitmapRotate180 ==
    /\ Live("Bitmap")
    /\ Return(Bitmap_Rotate180(This), "Rotate180", <<>>)

BitmapRotate270 ==
    /\ Live("Bitmap")
    /\ Return(Bitmap_Rotate270(This), "Rotate270", <<>>)

BitmapHdrResize ==
    /\ Live("BitmapHdr")
    /\ \E width \in NewDims, height \in NewDims :
          Return(BitmapHdr_Resize(This, width, height), "Resize", <<width, height>>)

BitmapHdrSetAlpha ==
    /\ Live("BitmapHdr")
    /\ \E alpha \in AlphaVals, lvl \in SimdLevels :
          Return(BitmapHdr_SetAlpha(This, alpha, lvl), "SetAlpha", <<alpha, lvl>>)

BitmapHdrNormalizeOrientation ==
    /\ Live("BitmapHdr")
    /\ Return(BitmapHdr_NormalizeOrientation(This), "NormalizeOrientation", <<>>)

BitmapHdrFlipVertical ==
    /\ Live("BitmapHdr")
    /\ Return(BitmapHdr_FlipVertical(This), "FlipVertical", <<>>)

BitmapHdrFlipHorizontal ==
    /\ Live("BitmapHdr")
    /\ Return(BitmapHdr_FlipHorizontal(This), "FlipHorizontal", <<>>)

BitmapHdrRotate90 ==
    /\ Live("BitmapHdr")
    /\ Return(BitmapHdr_Rotate90(This), "Rotate90", <<>>)

BitmapHdrRotate180 ==
    /\ Live("BitmapHdr")
    /\ Return(BitmapHdr_Rotate180(This), "Rotate180", <<>>)

BitmapHdrRotate270 ==
    /\ Live("BitmapHdr")
    /\ Return(BitmapHdr_Rotate270(This), "Rotate270", <<>>)

\* up to MaxOps calls of any operation
Next ==
    \/ BitmapResize
    \/ BitmapExtend
    \/ BitmapSetAlpha
    \/ BitmapNormalizeOrientation
    \/ BitmapFlipVertical
    \/ BitmapFlipHorizontal
    \/ BitmapRotate90
    \/ BitmapRotate180
    \/ BitmapRotate270
    \/ BitmapHdrResize
    \/ BitmapHdrSetAlpha
    \/ BitmapHdrNormalizeOrientation
    \/ BitmapHdrFlipVertical
    \/ BitmapHdrFlipHorizontal
    \/ BitmapHdrRotate90
    \/ BitmapHdrRotate180
    \/ BitmapHdrRotate270

Spec == Init /\ [][Next]_vars

\* up to MaxOps calls of the flips, the rotations and the orientation
\* normalization on the decoded buffer
NextGeom ==
    \/ BitmapNormalizeOrientation
    \/ BitmapFlipVertical
    \/ BitmapFlipHorizontal
    \/ BitmapRotate90
    \/ BitmapRotate180
    \/ BitmapRotate270
    \/ BitmapHdrNormalizeOrientation
    \/ BitmapHdrFlipVertical
    \/ BitmapHdrFlipHorizontal
    \/ BitmapHdrRotate90
    \/ BitmapHdrRotate180
    \/ BitmapHdrRotate270

SpecGeom == Init /\ [][NextGeom]_vars

\* the calls that replace the array, each made with memory for the
\* replacement or without
BitmapResizeAlloc ==
    /\ Live("Bitmap")
    /\ \E nomem \in BOOLEAN, width \in NewDims, height \in NewDims :
          Return(Bitmap_Resize([This EXCEPT !.nomem = nomem], width, height),
                 "Resize", <<width, height>>)

BitmapRotate90Alloc ==
    /\ Live("Bitmap")
    /\ \E nomem \in BOOLEAN :
          Return(Bitmap_Rotate90([This EXCEPT !.nomem = nomem]), "Rotate90", <<>>)

BitmapRotate270Alloc ==
    /\ Live("Bitmap")
    /\ \E nomem \in BOOLEAN :
          Return(Bitmap_Rotate270([This EXCEPT !.nomem = nomem]), "Rotate270", <<>>)

BitmapHdrResizeAlloc ==
    /\ Live("BitmapHdr")
    /\ \E nomem \in BOOLEAN, width \in NewDims, height \in NewDims :
          Return(BitmapHdr_Resize([This EXCEPT !.nomem = nomem], width, height),
                 "Resize", <<width, height>>)

BitmapHdrRotate90Alloc ==
    /\ Live("BitmapHdr")
    /\ \E nomem \in BOOLEAN :
          Return(BitmapHdr_Rotate90([This EXCEPT !.nomem = nomem]), "Rotate90", <<>>)

BitmapHdrRotate270Alloc ==
    /\ Live("BitmapHdr")
    /\ \E nomem \in BOOLEAN :
          Return(BitmapHdr_Rotate270([This EXCEPT !.nomem = nomem]), "Rotate270", <<>>)

\* an upright buffer
InitRealloc == Init /\ m_orientation = 1

\* up to MaxOps calls of Resize, Rotate90 and Rotate270
NextRealloc ==
    \/ BitmapResizeAlloc
    \/ BitmapRotate90Alloc
    \/ BitmapRotate270Alloc
    \/ BitmapHdrResizeAlloc
    \/ BitmapHdrRotate90Alloc
    \/ BitmapHdrRotate270Alloc

SpecRealloc == InitRealloc /\ [][NextRealloc]_vars

\* largest width and height of a buffer SetAlpha is called on: pixel counts
\* up to 30 = 16 + 8 + 4 + 2
MaxAlphaWidth == 6
MaxAlphaHeight == 5

\* an upright buffer of up to MaxAlphaWidth x MaxAlphaHeight pixels
InitAlpha ==
    /\ cls \in {"Bitmap", "BitmapHdr"}
    /\ m_width \in 1..MaxAlphaWidth
    /\ m_height \in 1..MaxAlphaHeight
    /\ m_orientation = 1
    /\ m_data = [i \in 1..m_width * m_height * 4 |-> i]
    /\ status = "ok"
    /\ last = [op |-> "ctor", args |-> <<>>, pre |-> Fields,
               calls |-> <<>>, nalloc |-> 1, oob |-> FALSE, atFree |-> <<>>,
               writes |-> <<>>]
    /\ nops = 0
    /\ m_colorspace = IF cls = "Bitmap" THEN "none" ELSE "BT709"
    /\ td = NoPool
    /\ call = NoCall
    /\ ret = NoObject
    /\ provider = ImageProvider_ctor
    /\ viewport = Viewport_ctor

\* up to MaxOps calls of SetAlpha
NextAlpha ==
    \/ BitmapSetAlpha
    \/ BitmapHdrSetAlpha

SpecAlpha == InitAlpha /\ [][NextAlpha]_vars

-----------------------------------------------------------------------------
(* State machine of the operations that may use the pool.  A call that     *)
(* gets to td->Sync() takes two actions of the calling thread, one up to   *)
(* Sync and one from Sync's return to the end of the function; between     *)
(* them the units run.                                                     *)

PoolWidths == 1..MaxPoolWidth

PoolHeights == 1..MaxPoolHeight

HdrClasses == {"BitmapHdr", "BitmapHdrHalf"}

AllClasses == {"Bitmap", "BitmapHdr", "BitmapHdrHalf"}

\* the object as a caller sees it through its accessors
Object ==
    [cls |-> cls, m_width |-> m_width, m_height |-> m_height, m_data |-> m_data,
     m_colorspace |-> m_colorspace, m_orientation |-> m_orientation]

InitTd ==
    /\ cls \in AllClasses
    /\ m_width \in PoolWidths
    /\ m_height \in PoolHeights
    /\ m_orientation = 0
    /\ m_data = [i \in 1..m_width * m_height * 4 |-> i]
    /\ status = "ok"
    /\ last = [op |-> "ctor", args |-> <<>>, pre |-> Fields,
               calls |-> <<>>, nalloc |-> 1, oob |-> FALSE, atFree |-> <<>>,
               writes |-> <<>>]
    /\ nops = 0
    /\ m_colorspace \in (IF cls = "Bitmap" THEN {"none"} ELSE Colorspaces)
    /\ \E n \in 0..MaxWorkers : td = [NoPool EXCEPT !.NumWorkers = n]
    /\ call = NoCall
    /\ ret = NoObject
    /\ provider = ImageProvider_ctor
    /\ viewport = Viewport_ctor

\* the history of the SetColorspace calls that have returned: h with the
\* entry of the call op( args ) that has just returned
Returned(h, op, args, tdp, pre) ==
    IF op = "SetColorspace"
    THEN Append(h, [op |-> op, args |-> args, tdp |-> tdp, tag |-> pre.m_colorspace])
    ELSE h

\* the calling thread runs op( args ) from its first statement to td->Sync(),
\* or to its end when it does not get there, leaving the object as in r
BeginCall(r, op, args, tdp) ==
    /\ m_width' = r.m_width
    /\ m_height' = r.m_height
    /\ m_data' = r.m_data
    /\ m_orientation' = r.m_orientation
    /\ m_colorspace' = r.m_colorspace
    /\ status' = r.status
    /\ td' = QueueAll(td, r.queued)
    /\ call' = [pc |-> IF r.status = "ok" THEN r.pc ELSE "return",
                op |-> op, args |-> args, tdp |-> tdp, pre |-> Object,
                queued |-> r.queued, newData |-> r.newData, resize |-> r.resize,
                calls |-> r.calls,
                hist |-> IF r.status = "ok" /\ r.pc = "return"
                         THEN Returned(call.hist, op, args, tdp, Object)
                         ELSE call.hist]
    /\ ret' = r.result
    /\ nops' = nops + 1
    /\ UNCHANGED <<cls, last>>

Begin(r, op, args, tdp) == BeginCall(r, op, args, tdp) /\ UNCHANGED ivvars

\* Sync has returned: the calling thread runs the rest of the function,
\* leaving the object as in r
FinishCall(r) ==
    /\ m_width' = r.m_width
    /\ m_height' = r.m_height
    /\ m_data' = r.m_data
    /\ m_orientation' = r.m_orientation
    /\ m_colorspace' = r.m_colorspace
    /\ status' = r.status
    /\ call' = [call EXCEPT !.pc = "return", !.newData = r.newData,
                            !.resize = r.resize,
                            !.hist = Returned(@, call.op, call.args, call.tdp, call.pre)]
    /\ ret' = r.result
    /\ UNCHANGED <<cls, last, nops, td>>

Finish(r) == FinishCall(r) /\ UNCHANGED ivvars

\* no call is running, the process is alive and a further call is made on an
\* object of one of the classes cs
LiveTd(cs) == status = "ok" /\ cls \in cs /\ nops < MaxOps /\ call.pc = "return"

\* a further Resize or ResizeNew call is made
LiveResize == LiveTd(AllClasses) /\ nops < MaxResizes

\* the running call is op and Sync can return
Synced(op) == status = "ok" /\ call.pc = "Sync" /\ call.op = op /\ TaskDispatch_Sync(td)

SetColorspaceCall ==
    /\ LiveTd(HdrClasses)
    /\ \E colorspace \in Colorspaces, tdp \in BOOLEAN :
          Begin(IF cls = "BitmapHdr"
                THEN BitmapHdr_SetColorspace(ThisTd, colorspace, tdp)
                ELSE BitmapHdrHalf_SetColorspace(ThisTd, colorspace, tdp),
                "SetColorspace", <<colorspace>>, tdp)

SetColorspaceSynced ==
    /\ Synced("SetColorspace")
    /\ Finish(IF cls = "BitmapHdr"
              THEN BitmapHdr_SetColorspace_end(ThisTd, call.args[1])
              ELSE BitmapHdrHalf_SetColorspace_end(ThisTd, call.args[1]))

\* the units that can take a step: those that are running, and the queued
\* ones when a worker thread, or the thread blocked in Sync, is free to take
\* one
Runnable ==
    td.running \cup
        (IF Cardinality(td.running) < TaskDispatch_NumWorkers(td) + 1
         THEN {td.queue[k] : k \in 1..Len(td.queue)}
         ELSE {})

\* the pool after unit u, taken from the queue if it was not running, has
\* processed one more of its size elements
Advance(u, size) ==
    [td EXCEPT !.queue = SelectSeq(@, LAMBDA x : x # u),
               !.running = IF u.pos + 1 >= size
                           THEN @ \ {u}
                           ELSE (@ \ {u}) \cup {[u EXCEPT !.pos = @ + 1]}]

\* cmsDoTransform( transform, ptr, ptr, chunk ) transforms its next pixel
CmsUnitStep ==
    /\ status = "ok"
    /\ \E u \in Runnable :
          /\ u.kind = "cmsDoTransform"
          /\ m_data' = cmsDoTransform(u.arg, m_data, u.dst + 4 * u.pos, 1)
          /\ td' = Advance(u, u.n)
    /\ UNCHANGED <<cls, m_width, m_height, m_orientation, status, last, nops,
                   m_colorspace, call, ret, ivvars>>

\* the member functions of the class of the modelled object
ResizeOf(b, width, height) ==
    CASE cls = "Bitmap" -> Bitmap_Resize(b, width, height)
      [] cls = "BitmapHdr" -> BitmapHdr_Resize(b, width, height)
      [] OTHER -> BitmapHdrHalf_Resize(b, width, height)

Resize_tdOf(b, width, height, threads) ==
    CASE cls = "Bitmap" -> Bitmap_Resize_td(b, width, height, threads)
      [] cls = "BitmapHdr" -> BitmapHdr_Resize_td(b, width, height, threads)
      [] OTHER -> BitmapHdrHalf_Resize_td(b, width, height, threads)

Resize_endOf(b) ==
    CASE cls = "Bitmap" -> Bitmap_Resize_end(b)
      [] cls = "BitmapHdr" -> BitmapHdr_Resize_end(b)
      [] OTHER -> BitmapHdrHalf_Resize_end(b)

ResizeNewOf(b, width, height, tdp, threads) ==
    CASE cls = "Bitmap" -> Bitmap_ResizeNew(b, width, height, tdp, threads)
      [] cls = "BitmapHdr" -> BitmapHdr_ResizeNew(b, width, height, tdp, threads)
      [] OTHER -> BitmapHdrHalf_ResizeNew(b, width, height, tdp, threads)

ResizeNew_endOf(b) ==
    CASE cls = "Bitmap" -> Bitmap_ResizeNew_end(b)
      [] cls = "BitmapHdr" -> BitmapHdr_ResizeNew_end(b)
      [] OTHER -> BitmapHdrHalf_ResizeNew_end(b)

\* Resize( width, height ) on the calling thread
ResizeSerial ==
    /\ LiveResize
    /\ \E width \in PoolWidths, height \in PoolHeights :
          Begin(ResizeOf(ThisTd, width, height), "Resize", <<width, height>>, FALSE)

\* Resize( width, height, td ): threads = td->NumWorkers() + 1, then what the
\* resampler makes of it
ResizeCall ==
    /\ LiveResize
    /\ \E width \in PoolWidths, height \in PoolHeights :
          \E threads \in stbir_build_samplers_with_splits(
                             height, TaskDispatch_NumWorkers(td) + 1) :
              Begin(Resize_tdOf(ThisTd, width, height, threads),
                    "Resize", <<width, height>>, TRUE)

ResizeSynced ==
    /\ Synced("Resize")
    /\ Finish(Resize_endOf(ThisTd))

ResizeNewCall ==
    /\ LiveResize
    /\ \E width \in PoolWidths, height \in PoolHeights, tdp \in BOOLEAN :
          \E threads \in stbir_build_samplers_with_splits(
                             height, TaskDispatch_NumWorkers(td) + 1) :
              Begin(ResizeNewOf(ThisTd, width, height, tdp, threads),
                    "ResizeNew", <<width, height>>, tdp)

ResizeNewSynced ==
    /\ Synced("ResizeNew")
    /\ Finish(ResizeNew_endOf(ThisTd))

\* stbir_resize_extended_split( &resize, i, 1 ) writes its next output row
SplitUnitStep ==
    /\ status = "ok"
    /\ \E u \in Runnable :
          /\ u.kind = "stbir_resize_extended_split"
          /\ LET rz == call.resize
                 y0 == SplitRow(u.n, u.arg, rz.dh)
                 y1 == SplitRow(u.n + 1, u.arg, rz.dh)
                 y  == y0 + u.pos
             IN  /\ call' = [call EXCEPT !.newData = stbir_resize_rows(
                                             m_data, rz.sw, rz.sh, @, rz.dw, rz.dh, y, y + 1)]
                 /\ td' = Advance(u, y1 - y0)
    /\ UNCHANGED <<cls, m_width, m_height, m_data, m_orientation, status, last, nops,
                   m_colorspace, ret, ivvars>>

\* BitmapHdr::Tonemap( op ) on the calling thread
TonemapCall ==
    /\ LiveTd({"BitmapHdr"})
    /\ \E op \in ToneMapOperators :
          Begin(BitmapHdr_Tonemap(ThisTd, op), "Tonemap", <<op>>, FALSE)

\* the object is the buffer LoadHdr( Colorspace::BT709 ) has just returned
LoadedHdr == LiveTd({"BitmapHdr"}) /\ m_colorspace = "BT709" /\ nops = 0

\* ExrLoader::Load() after LoadHdr
ExrLoaderLoadCall ==
    /\ LoadedHdr
    /\ \E tonemap \in ToneMapOperators, tdp \in BOOLEAN :
          Begin(ExrLoader_Load(ThisTd, tonemap, tdp), "ExrLoader::Load", <<tonemap>>, tdp)

ExrLoaderLoadSynced ==
    /\ Synced("ExrLoader::Load")
    /\ Finish(ExrLoader_Load_end(ThisTd))

\* the tone mapping of ImageProvider::Worker after LoadHdr
WorkerTonemapCall ==
    /\ LoadedHdr
    /\ Begin(ImageProvider_Worker_tonemap(ThisTd), "ImageProvider::Worker",
             <<"PbrNeutral">>, TRUE)

WorkerTonemapSynced ==
    /\ Synced("ImageProvider::Worker")
    /\ Finish(ImageProvider_Worker_tonemap_end(ThisTd))

\* ToneMap::Process( tonemap, (uint32_t*)dst, src, chunk ) maps its next pixel
ToneMapUnitStep ==
    /\ status = "ok"
    /\ \E u \in Runnable :
          /\ u.kind = "ToneMap::Process"
          /\ call' = [call EXCEPT !.newData = ToneMap_Process(
                                      u.arg, @, u.dst + 4 * u.pos, m_data,
                                      u.src + 4 * u.pos, 1)]
          /\ td' = Advance(u, u.n)
    /\ UNCHANGED <<cls, m_width, m_height, m_data, m_orientation, status, last, nops,
                   m_colorspace, ret, ivvars>>

\* up to MaxOps calls of SetColorspace and Tonemap on an HDR buffer, or a
\* tone mapping by a loader right after the buffer was loaded
NextHdr ==
    \/ SetColorspaceCall
    \/ SetColorspaceSynced
    \/ TonemapCall
    \/ ExrLoaderLoadCall
    \/ ExrLoaderLoadSynced
    \/ WorkerTonemapCall
    \/ WorkerTonemapSynced
    \/ CmsUnitStep
    \/ ToneMapUnitStep

SpecHdr == InitTd /\ [][NextHdr]_vars

\* up to MaxResizes calls of Resize and ResizeNew
NextResize ==
    \/ ResizeSerial
    \/ ResizeCall
    \/ ResizeSynced
    \/ ResizeNewCall
    \/ ResizeNewSynced
    \/ SplitUnitStep

SpecResize == InitTd /\ [][NextResize]_vars

\* up to MaxOps calls, MaxResizes of them calls of Resize and ResizeNew, the
\* others of SetColorspace
NextSync ==
    \/ ResizeSerial
    \/ ResizeCall
    \/ ResizeSynced
    \/ ResizeNewCall
    \/ ResizeNewSynced
    \/ SetColorspaceCall
    \/ SetColorspaceSynced
    \/ SplitUnitStep
    \/ CmsUnitStep

SpecSync == InitTd /\ [][NextSync]_vars

\* ImageProvider::Worker from job = m_jobs.back() to m_td.Sync(), or to the
\* end of the load when the pool is not used.  bitmapHdr is the buffer the
\* loader's LoadHdr returns for the file
ImageProvider_Worker(job, bitmapHdr) ==
    IF job.loader = "none"
    THEN bitmapHdr
    ELSE IF job.loader \in {"exr", "hdr"} /\ (job.hdr \/ job.loader = "hdr")
         THEN IF job.hdr
              THEN [bitmapHdr EXCEPT
                       !.result = [cls |-> "BitmapHdr", m_width |-> bitmapHdr.m_width,
                                   m_height |-> bitmapHdr.m_height,
                                   m_data |-> bitmapHdr.m_data,
                                   m_colorspace |-> bitmapHdr.m_colorspace,
                                   m_orientation |-> 0]]
              ELSE ImageProvider_Worker_tonemap(bitmapHdr)
         ELSE IF job.loader = "exr"
              THEN ExrLoader_Load(bitmapHdr, "PbrNeutral", TRUE)
              ELSE [bitmapHdr EXCEPT
                       !.result = NewBitmap(bitmapHdr.m_width, bitmapHdr.m_height,
                                            bitmapHdr.m_data)]

\* the function that waits in Sync for the chunks of job
SyncOf(job) ==
    IF job.loader = "exr" THEN "ExrLoader::Load" ELSE "ImageProvider::Worker"

\* the window's thread calls Viewport::LoadImage( path, scanDirectory )
ViewportLoadImage ==
    /\ status = "ok"
    /\ viewport.pc = "idle"
    /\ provider.m_nextId < MaxJobs
    /\ \E hdr \in BOOLEAN, scanDirectory \in BOOLEAN, loader \in Loaders,
          others \in UNION {[1..k -> {"none", "sdr"}] : k \in 0..(MaxFiles - 1)} :
          LET x == Viewport_LoadImage(<<provider, viewport>>, hdr, scanDirectory,
                                      <<loader>> \o others,
                                      TaskDispatch_NumWorkers(td) + 1)
          IN  /\ provider' = x[1]
              /\ viewport' = x[2]
              /\ td' = QueueAll(td, x[3])
    /\ UNCHANGED <<cls, m_width, m_height, m_data, m_orientation, status, last, nops,
                   m_colorspace, call, ret>>

\* m_td->Sync() returns in FindLoadableImages
ViewportLoadImageSynced ==
    /\ status = "ok"
    /\ viewport.pc = "Sync"
    /\ TaskDispatch_Sync(td)
    /\ LET x == Viewport_LoadImage_end(viewport, status)
       IN  /\ viewport' = x[1]
           /\ status' = x[2]
    /\ UNCHANGED <<cls, m_width, m_height, m_data, m_orientation, last, nops,
                   m_colorspace, td, call, ret, provider>>

\* the lambda of FindLoadableImages probes its next file
GetImageLoaderUnitStep ==
    /\ status = "ok"
    /\ \E u \in Runnable :
          /\ u.kind = "GetImageLoader"
          /\ LET i == u.src + u.pos + 1
             IN  viewport' = IF viewport.fileList[i] # "none"
                             THEN [viewport EXCEPT !.tmp[u.dst + 1] = Append(@, i)]
                             ELSE viewport
          /\ td' = Advance(u, u.n)
    /\ UNCHANGED <<cls, m_width, m_height, m_data, m_orientation, status, last, nops,
                   m_colorspace, call, ret, provider>>

\* the provider's thread leaves m_cv.wait with a job
WorkerTakeJob ==
    /\ status = "ok"
    /\ provider.pc = "wait"
    /\ provider.m_jobs # <<>>
    /\ LET job == provider.m_jobs[Len(provider.m_jobs)]
           r   == ImageProvider_Worker(job, ThisTd)
       IN  /\ BeginCall(r, SyncOf(job), <<"PbrNeutral">>, TRUE)
           /\ provider' = [provider EXCEPT
                              !.m_jobs = SubSeq(@, 1, Len(@) - 1),
                              !.m_currentJob = job.id,
                              !.job = job,
                              !.pc = IF r.pc = "Sync" THEN "Sync" ELSE "callback"]
    /\ UNCHANGED viewport

\* m_td.Sync() returns in the provider's thread
WorkerSynced ==
    /\ provider.pc = "Sync"
    /\ Synced(call.op)
    /\ FinishCall(IF call.op = "ExrLoader::Load"
                  THEN ExrLoader_Load_end(ThisTd)
                  ELSE ImageProvider_Worker_tonemap_end(ThisTd))
    /\ provider' = [provider EXCEPT !.pc = "callback"]
    /\ UNCHANGED viewport

\* the provider's thread reports the job: job.callback is
\* Viewport::ImageHandler, which takes the viewport's m_lock
WorkerCallback ==
    /\ status = "ok"
    /\ provider.pc = "callback"
    /\ viewport.pc = "idle"
    /\ LET result == IF provider.m_currentJob = -1 THEN "Cancelled"
                     ELSE IF ret # NoObject THEN "Success" ELSE "Error"
       IN  /\ provider' = [provider EXCEPT
                              !.pc = "wait", !.m_currentJob = -1, !.job = NoJob,
                              !.callbacks = Append(@, <<provider.job.id, result>>)]
           /\ viewport' = Viewport_ImageHandler(viewport, provider.job.id, result)
    /\ UNCHANGED <<cls, m_width, m_height, m_data, m_orientation, status, last, nops,
                   m_colorspace, td, call, ret>>

\* the image viewer: the buffer of Init is what LoadHdr returns for the file
InitShared == InitTd /\ cls = "BitmapHdr" /\ m_colorspace = "BT709"

\* up to MaxJobs calls of Viewport::LoadImage and the loads they start
NextShared ==
    \/ ViewportLoadImage
    \/ ViewportLoadImageSynced
    \/ GetImageLoaderUnitStep
    \/ WorkerTakeJob
    \/ WorkerSynced
    \/ WorkerCallback
    \/ ToneMapUnitStep

SpecShared == InitShared /\ [][NextShared]_vars

-----------------------------------------------------------------------------
(* State machine of one job of ImageProvider::Worker that loads an HDR     *)
(* image for a request that is not HDR: the tone mapping on the pool, then *)
(* the normalization of both bitmaps and the Success callback.             *)

\* the loader's LoadHdr( Colorspace::BT709 ) has returned the buffer, with
\* the orientation code of the file
InitWorker ==
    /\ cls = "BitmapHdr"
    /\ m_width \in PoolWidths
    /\ m_height \in PoolHeights
    /\ m_orientation \in 0..8
    /\ m_data = [i \in 1..m_width * m_height * 4 |-> i]
    /\ status = "ok"
    /\ last = [op |-> "ctor", args |-> <<>>, pre |-> Fields,
               calls |-> <<>>, nalloc |-> 1, oob |-> FALSE, atFree |-> <<>>,
               writes |-> <<>>]
    /\ nops = 0
    /\ m_colorspace = "BT709"
    /\ \E n \in 0..MaxWorkers : td = [NoPool EXCEPT !.NumWorkers = n]
    /\ call = NoCall
    /\ ret = NoObject
    /\ provider = ImageProvider_ctor
    /\ viewport = Viewport_ctor

\* object o set up for a call of one of its member functions
ThisOf(o) ==
    [m_width |-> o.m_width, m_height |-> o.m_height, m_data |-> o.m_data,
     m_orientation |-> o.m_orientation, status |-> "ok", calls |-> <<>>, nalloc |-> 0,
     oob |-> FALSE, nomem |-> FALSE, atFree |-> <<>>, writes |-> <<>>]

\* ImageProvider::Worker, not cancelled, bitmap and bitmapHdr both set:
\* bitmap->NormalizeOrientation(); bitmapHdr->NormalizeOrientation(); then
\* job.callback( ..., Result::Success, { bitmap, bitmapHdr, ... } )
WorkerSuccess ==
    /\ status = "ok"
    /\ call.pc = "return"
    /\ call.op = "ImageProvider::Worker"
    /\ last.op # "Success"
    /\ LET bitmap    == Bitmap_NormalizeOrientation(ThisOf(ret))
           bitmapHdr == IF bitmap.status = "ok"
                        THEN BitmapHdr_NormalizeOrientation(This)
                        ELSE [This EXCEPT !.status = bitmap.status]
       IN  /\ ret' = [ret EXCEPT !.m_width = bitmap.m_width,
                                 !.m_height = bitmap.m_height,
                                 !.m_data = bitmap.m_data,
                                 !.m_orientation = bitmap.m_orientation]
           /\ m_width' = bitmapHdr.m_width
           /\ m_height' = bitmapHdr.m_height
           /\ m_data' = bitmapHdr.m_data
           /\ m_orientation' = bitmapHdr.m_orientation
           /\ status' = bitmapHdr.status
           /\ last' = [op |-> IF bitmapHdr.status = "ok" THEN "Success" ELSE "none",
                       args |-> <<>>, pre |-> Fields,
                       calls |-> bitmapHdr.calls, nalloc |-> bitmapHdr.nalloc,
                       oob |-> FALSE, atFree |-> bitmapHdr.atFree, writes |-> <<>>]
    /\ nops' = nops + 1
    /\ UNCHANGED <<cls, m_colorspace, td, call, ivvars>>

NextWorker ==
    \/ WorkerTonemapCall
    \/ ToneMapUnitStep
    \/ WorkerTonemapSynced
    \/ WorkerSuccess

SpecWorker == InitWorker /\ [][NextWorker]_vars

-----------------------------------------------------------------------------
(* State machine of the ImageProvider's jobs: client threads call          *)
(* LoadImage, Cancel and CancelAll while the provider's thread runs        *)
(* Worker.  The destructor runs when no job is queued and no other call is *)
(* under way.  The buffers of the images are not part of it.               *)

\* LoadImage calls made in one run of the jobs
MaxLoads == 3

\* client c is outside the provider's functions and the provider is alive.
\* Threads outside the provider are alike: the first of them makes the call
ClientIdle(c) ==
    /\ c \in Clients
    /\ status = "ok"
    /\ provider.client[c].pc = "idle"
    /\ \A o \in Clients : (o < c) => (provider.client[o].pc # "idle")
    /\ ~provider.m_shutdown

\* thread t can take the mutex
Lockable == provider.m_lock = -1

JobStep(p) ==
    /\ provider' = p
    /\ UNCHANGED <<cls, m_width, m_height, m_data, m_orientation, status, last, nops,
                   m_colorspace, td, call, ret, viewport>>

\* the requests are for SDR images; the file is looked at when the job is
\* loaded
ClientLoadImage ==
    \E c \in Clients :
        /\ ClientIdle(c)
        /\ provider.m_nextId < MaxLoads
        /\ JobStep(ImageProvider_LoadImage_id(provider, c, FALSE, "sdr"))

ClientLoadImageLocked ==
    \E c \in Clients :
        /\ provider.client[c].pc = "LoadImage"
        /\ Lockable
        /\ JobStep(ImageProvider_LoadImage_locked(provider, c))

ClientCancel ==
    \E c \in Clients, id \in 0..(MaxLoads - 1) :
        /\ ClientIdle(c)
        /\ Lockable
        /\ JobStep(ImageProvider_Cancel_locked(provider, c, id))

ClientCancelCallback ==
    \E c \in Clients :
        /\ provider.client[c].pc = "Cancel"
        /\ JobStep(ImageProvider_Cancel_callback(provider, c))

ClientCancelAll ==
    \E c \in Clients :
        /\ ClientIdle(c)
        /\ Lockable
        /\ JobStep(ImageProvider_CancelAll_locked(provider, c))

ClientCancelAllCallback ==
    \E c \in Clients :
        /\ provider.client[c].pc = "CancelAll"
        /\ JobStep(ImageProvider_CancelAll_loop(provider, c))

ClientDestroy ==
    \E c \in Clients :
        /\ ClientIdle(c)
        /\ \A o \in Clients : provider.client[o].pc = "idle"
        /\ provider.m_jobs = <<>>
        /\ Lockable
        /\ JobStep(ImageProvider_dtor(provider, c))

JobWorkerWait ==
    /\ provider.pc = "wait"
    /\ provider.m_jobs # <<>> \/ provider.m_shutdown
    /\ Lockable
    /\ JobStep(ImageProvider_Worker_wait(provider))

JobWorkerLoad ==
    /\ provider.pc = "load"
    /\ \E loaded \in BOOLEAN : JobStep(ImageProvider_Worker_load(provider, loaded))

JobWorkerCheck ==
    /\ provider.pc = "check"
    /\ Lockable
    /\ JobStep(ImageProvider_Worker_check(provider))

JobWorkerCallback ==
    /\ provider.pc = "callback"
    /\ JobStep(ImageProvider_Worker_callback(provider))

JobWorkerRelock ==
    /\ provider.pc = "relock"
    /\ Lockable
    /\ JobStep(ImageProvider_Worker_relock(provider))

InitJobs == InitTd /\ cls = "BitmapHdr" /\ m_colorspace = "BT709" /\ td.NumWorkers = 0
            /\ m_width = 1 /\ m_height = 1

NextJobs ==
    \/ ClientLoadImage
    \/ ClientLoadImageLocked
    \/ ClientCancel
    \/ ClientCancelCallback
    \/ ClientCancelAll
    \/ ClientCancelAllCallback
    \/ ClientDestroy
    \/ JobWorkerWait
    \/ JobWorkerLoad
    \/ JobWorkerCheck
    \/ JobWorkerCallback
    \/ JobWorkerRelock

SpecJobs == InitJobs /\ [][NextJobs]_vars

-----------------------------------------------------------------------------
(* State machine of the constructors that build an object from another.   *)
(* The object of the state is the source; ret is the object built.  One    *)
(* object is built in a run.                                               *)

\* largest width and height of a converted buffer: element counts up to 56,
\* 28 = 16 + 8 + 4 among them
MaxConvWidth == 7
MaxConvHeight == 2

\* the values an int that was never assigned may be read as
IndetSlack == 1
Indeterminate == (0 - IndetSlack)..(8 + IndetSlack)

InitConvert ==
    /\ cls \in HdrClasses
    /\ m_width \in 1..MaxConvWidth
    /\ m_height \in 1..MaxConvHeight
    /\ m_orientation = 0
    /\ m_data = [i \in 1..m_width * m_height * 4 |-> i]
    /\ status = "ok"
    /\ last = [op |-> "ctor", args |-> <<>>, pre |-> Fields,
               calls |-> <<>>, nalloc |-> 1, oob |-> FALSE, atFree |-> <<>>,
               writes |-> <<>>]
    /\ nops = 0
    /\ m_colorspace \in Colorspaces
    /\ td = NoPool
    /\ call = NoCall
    /\ ret = NoObject
    /\ provider = ImageProvider_ctor
    /\ viewport = Viewport_ctor

\* the constructor op( args ) has built r.result from the object, which it
\* leaves alone
Construct(r, op, args) ==
    /\ last' = [op |-> op, args |-> args, pre |-> Fields,
                calls |-> r.calls, nalloc |-> r.nalloc, oob |-> r.oob,
                atFree |-> r.atFree, writes |-> r.writes]
    /\ ret' = r.result
    /\ status' = r.status
    /\ nops' = nops + 1
    /\ UNCHANGED <<cls, m_width, m_height, m_data, m_orientation, m_colorspace, td, call,
                   ivvars>>

\* std::make_unique<BitmapHdrHalf>( *hdr )
BitmapHdrHalfFromBitmapHdr ==
    /\ Live("BitmapHdr")
    /\ nops = 0
    /\ \E lvl \in SimdLevels, f16c \in BOOLEAN :
          Construct(BitmapHdrHalf_BitmapHdrHalf(ThisTd, lvl, f16c),
                    "BitmapHdrHalf::BitmapHdrHalf", <<lvl, f16c>>)

\* std::make_shared<BitmapHdr>( *half )
BitmapHdrFromBitmapHdrHalf ==
    /\ Live("BitmapHdrHalf")
    /\ nops = 0
    /\ \E lvl \in SimdLevels, f16c \in BOOLEAN, indet \in Indeterminate :
          Construct(BitmapHdr_BitmapHdr(ThisTd, lvl, f16c, indet),
                    "BitmapHdr::BitmapHdr", <<lvl, f16c>>)

NextConvert ==
    \/ BitmapHdrHalfFromBitmapHdr
    \/ BitmapHdrFromBitmapHdrHalf

SpecConvert == InitConvert /\ [][NextConvert]_vars

-----------------------------------------------------------------------------
(* State machine of the ways a Bitmap or a BitmapHdr comes into being: the *)
(* constructors with dimensions, the conversion from BitmapHdrHalf, and    *)
(* the move constructor and move assignment of Bitmap.  The object of the  *)
(* state is the source of a conversion or a move, built with an            *)
(* orientation code of 0..8; ret is the object built or assigned to.       *)

\* objects built in one run
MaxBuilt == 2

\* widths and heights of the objects built
MaxBuildDim == 1
BuildDims == 1..MaxBuildDim

InitBuild ==
    /\ cls \in {"Bitmap", "BitmapHdrHalf"}
    /\ m_width \in BuildDims
    /\ m_height \in BuildDims
    /\ m_orientation \in IF cls = "Bitmap" THEN 0..8 ELSE {0}
    /\ m_data = [i \in 1..m_width * m_height * 4 |-> i]
    /\ status = "ok"
    /\ last = [op |-> "ctor", args |-> <<>>, pre |-> Fields,
               calls |-> <<>>, nalloc |-> 1, oob |-> FALSE, atFree |-> <<>>,
               writes |-> <<>>]
    /\ nops = 0
    /\ m_colorspace = IF cls = "Bitmap" THEN "none" ELSE "BT709"
    /\ td = NoPool
    /\ call = NoCall
    /\ ret = NoObject
    /\ provider = ImageProvider_ctor
    /\ viewport = Viewport_ctor

\* ret becomes built by op( args ); the object becomes other
Built(built, other, op, args) ==
    /\ ret' = built
    /\ m_width' = other.m_width
    /\ m_height' = other.m_height
    /\ m_data' = other.m_data
    /\ m_orientation' = other.m_orientation
    /\ last' = [op |-> op, args |-> args, pre |-> Fields,
                calls |-> <<>>, nalloc |-> 0, oob |-> FALSE, atFree |-> <<>>,
                writes |-> <<>>]
    /\ nops' = nops + 1
    /\ UNCHANGED <<cls, status, m_colorspace, td, call, ivvars>>

BitmapDims ==
    /\ status = "ok"
    /\ nops < MaxBuilt
    /\ \E width \in BuildDims, height \in BuildDims, orientation \in 0..8 :
          Built(Bitmap_Bitmap(width, height, orientation), This,
                "Bitmap::Bitmap", <<width, height, orientation>>)

BitmapHdrDims ==
    /\ status = "ok"
    /\ nops < MaxBuilt
    /\ \E width \in BuildDims, height \in BuildDims, orientation \in 0..8 :
          Built(BitmapHdr_BitmapHdr_dims(width, height, "BT709", orientation), This,
                "BitmapHdr::BitmapHdr", <<width, height, orientation>>)

BitmapHdrFromHalf ==
    /\ status = "ok"
    /\ cls = "BitmapHdrHalf"
    /\ nops < MaxBuilt
    /\ \E indet \in Indeterminate :
          Built(BitmapHdr_BitmapHdr(ThisTd, 0, FALSE, indet).result, This,
                "BitmapHdr::BitmapHdr( BitmapHdrHalf )", <<>>)

BitmapMove ==
    /\ status = "ok"
    /\ cls = "Bitmap"
    /\ nops < MaxBuilt
    /\ \E indet \in Indeterminate :
          LET x == Bitmap_Bitmap_move(This, indet)
          IN  Built(x[1], x[2], "Bitmap::Bitmap( Bitmap&& )", <<>>)

BitmapMoveAssign ==
    /\ status = "ok"
    /\ cls = "Bitmap"
    /\ ret.cls = "Bitmap"
    /\ nops < MaxBuilt
    /\ LET x == Bitmap_operator_assign(ret, This)
       IN  Built(x[1], x[2], "Bitmap::operator=( Bitmap&& )", <<>>)

NextBuild ==
    \/ BitmapDims
    \/ BitmapHdrDims
    \/ BitmapHdrFromHalf
    \/ BitmapMove
    \/ BitmapMoveAssign

SpecBuild == InitBuild /\ [][NextBuild]_vars

-----------------------------------------------------------------------------
(* The element counts in full width.  A uint32_t is the sequence of its    *)
(* four bytes, least significant first, so that products beyond 2^32 can   *)
(* be told from their values modulo 2^32.  The arrays themselves are not   *)
(* part of this state machine: m_width and m_height are byte sequences,    *)
(* m_data is empty, and last holds the count the code computed (count) and *)
(* the product of the same factors over the naturals (exact).              *)

\* the sum of a[i] * b[k - i] over the bytes i of a, from byte i on
RECURSIVE Column(_, _, _, _)
Column(a, b, k, i) ==
    IF i >= Len(a)
    THEN 0
    ELSE (IF (k - i >= 0) /\ (k - i < Len(b)) THEN a[i + 1] * b[k - i + 1] ELSE 0)
         + Column(a, b, k, i + 1)

\* the bytes k.. of the product of a and b over the naturals
RECURSIVE Product(_, _, _, _)
Product(a, b, k, carry) ==
    IF k >= Len(a) + Len(b)
    THEN <<>>
    ELSE LET t == Column(a, b, k, 0) + carry
         IN  <<t % 256>> \o Product(a, b, k + 1, t \div 256)

\* a * b over the naturals
Times(a, b) == Product(a, b, 0, 0)

\* a * b in uint32_t: the low four bytes
Times32(a, b) == SubSeq(Times(a, b), 1, 4)

\* the value of a in n bytes (a conversion to a wider type keeps the value)
Widen(a, n) == [i \in 1..n |-> IF i <= Len(a) THEN a[i] ELSE 0]

\* the int literal 4, converted to uint32_t by the multiplication
Four == <<4, 0, 0, 0>>

\* new T[width*height*4]
AllocCount(width, height) == Times32(Times32(width, height), Four)

\* width * height * 4 over the naturals
ExactCount(width, height) == Times(Times(width, height), Four)

\* size_t sz = m_width * m_height; auto sz = m_width * m_height
PixelCount(width, height) == Times32(width, height)

\* 0, 1, 3, 0x8000, 0xFFFF, 0x10000, 0x40000000, 0xFFFFFFFF
Words ==
    {<<0, 0, 0, 0>>, <<1, 0, 0, 0>>, <<3, 0, 0, 0>>, <<0, 128, 0, 0>>, <<255, 255, 0, 0>>,
     <<0, 0, 1, 0>>, <<0, 0, 0, 64>>, <<255, 255, 255, 255>>}

\* op( args ) has computed count where the naturals give exact, and leaves
\* the object width wide and height high
Counted(op, args, count, exact, width, height) ==
    /\ last' = [op |-> op, args |-> args, count |-> count, exact |-> exact]
    /\ m_width' = width
    /\ m_height' = height
    /\ nops' = nops + 1
    /\ UNCHANGED <<cls, m_data, m_orientation, status, m_colorspace, td, call, ret, ivvars>>

\* Bitmap( width, height ) or BitmapHdr( width, height, colorspace )
InitWide ==
    /\ cls \in {"Bitmap", "BitmapHdr"}
    /\ m_width \in Words
    /\ m_height \in Words
    /\ m_orientation = 0
    /\ m_data = <<>>
    /\ status = "ok"
    /\ last = [op |-> "ctor", args |-> <<m_width, m_height>>,
               count |-> AllocCount(m_width, m_height),
               exact |-> ExactCount(m_width, m_height)]
    /\ nops = 0
    /\ m_colorspace = IF cls = "Bitmap" THEN "none" ELSE "BT709"
    /\ td = NoPool
    /\ call = NoCall
    /\ ret = NoObject
    /\ provider = ImageProvider_ctor
    /\ viewport = Viewport_ctor

WideResize ==
    /\ nops < MaxOps
    /\ \E width \in Words, height \in Words :
          Counted("Resize", <<width, height>>, AllocCount(width, height),
                  ExactCount(width, height), width, height)

WideRotate90 ==
    /\ nops < MaxOps
    /\ Counted("Rotate90", <<>>, AllocCount(m_width, m_height),
               ExactCount(m_width, m_height), m_height, m_width)

WideRotate270 ==
    /\ nops < MaxOps
    /\ Counted("Rotate270", <<>>, AllocCount(m_width, m_height),
               ExactCount(m_width, m_height), m_height, m_width)

WideSetColorspace ==
    /\ nops < MaxOps
    /\ cls = "BitmapHdr"
    /\ Counted("SetColorspace", <<>>, PixelCount(m_width, m_height),
               Times(m_width, m_height), m_width, m_height)

WideSetAlpha ==
    /\ nops < MaxOps
    /\ Counted("SetAlpha", <<>>, PixelCount(m_width, m_height),
               Times(m_width, m_height), m_width, m_height)

NextWide ==
    \/ WideResize
    \/ WideRotate90
    \/ WideRotate270
    \/ WideSetColorspace
    \/ WideSetAlpha

SpecWide == InitWide /\ [][NextWide]_vars

-----------------------------------------------------------------------------
(* Properties *)

\* the member function f of the class of the modelled object
NormalizeOrientationOf(b) ==
    IF cls = "Bitmap" THEN Bitmap_NormalizeOrientation(b) ELSE BitmapHdr_NormalizeOrientation(b)
FlipVerticalOf(b) ==
    IF cls = "Bitmap" THEN Bitmap_FlipVertical(b) ELSE BitmapHdr_FlipVertical(b)
FlipHorizontalOf(b) ==
    IF cls = "Bitmap" THEN Bitmap_FlipHorizontal(b) ELSE BitmapHdr_FlipHorizontal(b)
Rotate90Of(b) ==
    IF cls = "Bitmap" THEN Bitmap_Rotate90(b) ELSE BitmapHdr_Rotate90(b)
Rotate180Of(b) ==
    IF cls = "Bitmap" THEN Bitmap_Rotate180(b) ELSE BitmapHdr_Rotate180(b)
Rotate270Of(b) ==
    IF cls = "Bitmap" THEN Bitmap_Rotate270(b) ELSE BitmapHdr_Rotate270(b)

\* the object before the last call, set up for a call
Before ==
    [m_width |-> last.pre.m_width, m_height |-> last.pre.m_height,
     m_data |-> last.pre.m_data, m_orientation |-> last.pre.m_orientation,
     status |-> "ok", calls |-> <<>>, nalloc |-> 0, oob |-> FALSE,
     nomem |-> FALSE, atFree |-> <<>>, writes |-> <<>>]

\* pixel k of array d: its four elements
Pixel(d, k) == <<d[4 * k + 1], d[4 * k + 2], d[4 * k + 3], d[4 * k + 4]>>

\* the last call was NormalizeOrientation on a buffer tagged c
Normalized(c) == last.op = "NormalizeOrientation" /\ last.pre.m_orientation = c

\* the pixel data of r: the elements of its m_width * m_height pixels
PixelData(r) == SubSeq(r.m_data, 1, r.m_width * r.m_height * 4)

\* width, height and pixel data of r are those of p
SameImage(r, p) ==
    /\ r.m_width = p.m_width
    /\ r.m_height = p.m_height
    /\ PixelData(r) = PixelData(p)

\* the table of section 4.5
OrientationTable(c) ==
    CASE c = 2 -> <<"FlipHorizontal">>
      [] c = 3 -> <<"Rotate180">>
      [] c = 4 -> <<"FlipVertical">>
      [] c = 5 -> <<"Rotate270", "FlipVertical">>
      [] c = 6 -> <<"Rotate90">>
      [] c = 7 -> <<"Rotate90", "FlipVertical">>
      [] c = 8 -> <<"Rotate270">>

\* C1: for every code c in 2..8 NormalizeOrientation calls exactly the
\* primitives of the table, in its order, and Bitmap::NormalizeOrientation and
\* BitmapHdr::NormalizeOrientation call the same sequence on the same buffer.
C1_TableSequence ==
    \A c \in 2..8 :
        Normalized(c) =>
            /\ last.calls = OrientationTable(c)
            /\ Bitmap_NormalizeOrientation(Before).calls = OrientationTable(c)
            /\ BitmapHdr_NormalizeOrientation(Before).calls = OrientationTable(c)

C1_Witness ==
    /\ cls = "BitmapHdr"
    /\ Normalized(5)
    /\ last.calls = <<"Rotate270", "FlipVertical">>
    /\ last.pre.m_width = 3
    /\ last.pre.m_height = 2

\* C2: after any sequence of the mutating operations the backing array holds
\* exactly Width() * Height() * 4 elements.  (A state left by a call that
\* wrote outside its array is not held against the claim: the behaviour of
\* that call is undefined.)
C2_ArrayLength == ~last.oob => Len(m_data) = m_width * m_height * 4

\* C3: Rotate90 on a w x h buffer leaves Width() = h and Height() = w and puts
\* the old pixel y*w + x at x*h + (h-y-1); NormalizeOrientation with code 6 is
\* that permutation too.
C3_Rotate90Map ==
    (last.op = "Rotate90" \/ Normalized(6)) =>
        LET w == last.pre.m_width
            h == last.pre.m_height
        IN  /\ status = "ok"
            /\ m_width = h
            /\ m_height = w
            /\ Len(m_data) = w * h * 4
            /\ \A x \in 0..(w - 1), y \in 0..(h - 1) :
                  Pixel(m_data, x * h + (h - y - 1)) = Pixel(last.pre.m_data, y * w + x)

\* the 4x4 Bitmap of section 8, tagged 6 and normalized: the first row of the
\* result is the first column of the source read upwards
C3_Witness ==
    /\ cls = "Bitmap"
    /\ Normalized(6)
    /\ last.pre.m_width = 4
    /\ last.pre.m_height = 4
    /\ last.pre.m_data = [i \in 1..64 |-> i]
    /\ m_orientation = 1
    /\ Pixel(m_data, 0) = <<49, 50, 51, 52>>
    /\ Pixel(m_data, 3) = <<1, 2, 3, 4>>
    /\ Pixel(m_data, 15) = <<13, 14, 15, 16>>

\* C4: Rotate270 on a w x h buffer leaves Width() = h and Height() = w and puts
\* the old pixel y*w + x at (w-x-1)*h + y.
C4_Rotate270Map ==
    (last.op = "Rotate270") =>
        LET w == last.pre.m_width
            h == last.pre.m_height
        IN  /\ status = "ok"
            /\ m_width = h
            /\ m_height = w
            /\ Len(m_data) = w * h * 4
            /\ \A x \in 0..(w - 1), y \in 0..(h - 1) :
                  Pixel(m_data, (w - x - 1) * h + y) = Pixel(last.pre.m_data, y * w + x)

C4_Witness ==
    /\ cls = "BitmapHdr"
    /\ last.op = "Rotate270"
    /\ last.pre.m_width = 3
    /\ last.pre.m_height = 2
    /\ last.pre.m_data = [i \in 1..24 |-> i]
    /\ m_width = 2
    /\ Pixel(m_data, 0) = <<9, 10, 11, 12>>
    /\ Pixel(m_data, 5) = <<13, 14, 15, 16>>

\* C5: a geometric primitive followed by its inverse restores the pixel data,
\* the width and the height: Rotate90 then Rotate270, Rotate270 then Rotate90,
\* and FlipHorizontal, FlipVertical and Rotate180 each applied twice.  The
\* first of the two calls is the last call made; the second is applied to
\* the state it left.
C5_InverseRestores ==
    /\ last.op = "Rotate90" => SameImage(Rotate270Of(This), last.pre)
    /\ last.op = "Rotate270" => SameImage(Rotate90Of(This), last.pre)
    /\ last.op = "FlipHorizontal" => SameImage(FlipHorizontalOf(This), last.pre)
    /\ last.op = "FlipVertical" => SameImage(FlipVerticalOf(This), last.pre)
    /\ last.op = "Rotate180" => SameImage(Rotate180Of(This), last.pre)

C5_Witness ==
    /\ cls = "Bitmap"
    /\ last.op = "Rotate90"
    /\ last.pre.m_width = 3
    /\ last.pre.m_height = 2
    /\ m_data # last.pre.m_data
    /\ SameImage(Bitmap_Rotate270(This), last.pre)

\* the image whose pixel at column x, row y is the pixel of u at column
\* SX(x, y), row SY(x, y); nw wide and nh high
Remap(u, nw, nh, SX(_, _), SY(_, _)) ==
    [m_width |-> nw, m_height |-> nh,
     m_data |-> [j \in 1..(nw * nh * 4) |->
                    LET k == (j - 1) \div 4
                        x == k % nw
                        y == k \div nw
                    IN  u.m_data[(SY(x, y) * u.m_width + SX(x, y)) * 4 + ((j - 1) % 4) + 1]]]

\* the forward transform of orientation code c: the layout in which an
\* upright image u is stored when it is tagged c (2 mirrored horizontally,
\* 3 rotated by 180, 4 mirrored vertically, 5 transposed, 6 stored so that a
\* clockwise rotation by 90 makes it upright, 7 transversed, 8 stored so that
\* a clockwise rotation by 270 makes it upright)
ForwardTransform(c, u) ==
    LET W == u.m_width
        H == u.m_height
    IN  CASE c = 1 -> Remap(u, W, H, LAMBDA x, y : x, LAMBDA x, y : y)
          [] c = 2 -> Remap(u, W, H, LAMBDA x, y : W - 1 - x, LAMBDA x, y : y)
          [] c = 3 -> Remap(u, W, H, LAMBDA x, y : W - 1 - x, LAMBDA x, y : H - 1 - y)
          [] c = 4 -> Remap(u, W, H, LAMBDA x, y : x, LAMBDA x, y : H - 1 - y)
          [] c = 5 -> Remap(u, H, W, LAMBDA x, y : y, LAMBDA x, y : x)
          [] c = 6 -> Remap(u, H, W, LAMBDA x, y : W - 1 - y, LAMBDA x, y : x)
          [] c = 7 -> Remap(u, H, W, LAMBDA x, y : W - 1 - y, LAMBDA x, y : H - 1 - x)
          [] c = 8 -> Remap(u, H, W, LAMBDA x, y : y, LAMBDA x, y : H - 1 - x)

\* C6: for every code c in 1..8, NormalizeOrientation on a buffer tagged c
\* followed by the forward transform of c gives back the pixel layout, the
\* width and the height the buffer had before.
C6_RoundTrip ==
    \A c \in 1..8 :
        Normalized(c) =>
            /\ status = "ok"
            /\ SameImage(ForwardTransform(c, Fields), last.pre)

\* the 2 x 3 image of section 8, tagged 8
C6_Witness ==
    /\ cls = "Bitmap"
    /\ Normalized(8)
    /\ last.pre.m_width = 2
    /\ last.pre.m_height = 3
    /\ last.pre.m_data = [i \in 1..24 |-> i]
    /\ m_width = 3
    /\ m_data # last.pre.m_data
    /\ ForwardTransform(8, Fields).m_data = [i \in 1..24 |-> i]

\* C7: for every initial code in 1..8 Orientation() is 1 after
\* NormalizeOrientation returns, and a second NormalizeOrientation call
\* changes neither the pixels nor the dimensions.
C7_NormalizedIsOne ==
    \A c \in 1..8 :
        Normalized(c) =>
            /\ status = "ok"
            /\ m_orientation = 1
            /\ LET r == NormalizeOrientationOf(This)
               IN  /\ r.status = "ok"
                   /\ r.m_orientation = 1
                   /\ SameImage(r, Fields)

C7_Witness ==
    /\ cls = "Bitmap"
    /\ Normalized(7)
    /\ last.pre.m_width = 2
    /\ last.pre.m_height = 3
    /\ m_orientation = 1
    /\ m_data # last.pre.m_data
    /\ Bitmap_NormalizeOrientation(This).m_data = m_data

\* C8: for every orientation value outside 0..8, greater than 8 or negative,
\* NormalizeOrientation ends in the fatal error "Invalid orientation value"
\* and does not return.
C8_OutOfRangeIsFatal ==
    (last.op = "NormalizeOrientation" /\ last.pre.m_orientation \notin 0..8) =>
        status = "Invalid orientation value!"

\* C9: with orientation code 0 or 1 NormalizeOrientation returns with the
\* pixel data, Width() and Height() unchanged and allocates nothing.
C9_IdentityCodes ==
    \A c \in {0, 1} :
        Normalized(c) =>
            /\ status = "ok"
            /\ SameImage(Fields, last.pre)
            /\ last.nalloc = 0
            /\ last.calls = <<>>

C9_Witness ==
    /\ cls = "BitmapHdr"
    /\ Normalized(1)
    /\ status = "ok"
    /\ last.pre.m_width = 2
    /\ last.pre.m_height = 3
    /\ m_data = last.pre.m_data
    /\ last.nalloc = 0

\* C10: on a w x h image NormalizeOrientation with code 5 gives the transpose
\* (h wide, w high, the pixel at column y, row x is the source pixel at column
\* x, row y) and with code 7 the transverse (the pixel at column h-1-y, row
\* w-1-x is the source pixel at column x, row y).
C10_TransposeTransverse ==
    LET w == last.pre.m_width
        h == last.pre.m_height
    IN  /\ Normalized(5) =>
            /\ status = "ok"
            /\ m_width = h
            /\ m_height = w
            /\ \A x \in 0..(w - 1), y \in 0..(h - 1) :
                  Pixel(m_data, x * m_width + y) = Pixel(last.pre.m_data, y * w + x)
        /\ Normalized(7) =>
            /\ status = "ok"
            /\ m_width = h
            /\ m_height = w
            /\ \A x \in 0..(w - 1), y \in 0..(h - 1) :
                  Pixel(m_data, (w - 1 - x) * m_width + (h - 1 - y))
                      = Pixel(last.pre.m_data, y * w + x)

C10_Witness ==
    /\ cls = "Bitmap"
    /\ Normalized(5)
    /\ last.pre.m_width = 3
    /\ last.pre.m_height = 2
    /\ last.pre.m_data = [i \in 1..24 |-> i]
    /\ m_width = 2
    /\ m_height = 3
    /\ Pixel(m_data, 1) = <<13, 14, 15, 16>>
    /\ Pixel(m_data, 2) = <<5, 6, 7, 8>>

-----------------------------------------------------------------------------
(* Properties of the operations that may use the pool *)

\* the object before the running or last call, set up for a call
BeforeTd ==
    [cls |-> call.pre.cls, m_width |-> call.pre.m_width, m_height |-> call.pre.m_height,
     m_data |-> call.pre.m_data, m_orientation |-> call.pre.m_orientation,
     m_colorspace |-> call.pre.m_colorspace, status |-> "ok", calls |-> <<>>,
     nalloc |-> 0, oob |-> FALSE, nomem |-> FALSE, atFree |-> <<>>, writes |-> <<>>,
     queued |-> <<>>, newData |-> <<>>,
     resize |-> NoResize, result |-> NoObject, pc |-> "return"]

SetColorspaceOf(b, colorspace, tdp) ==
    IF cls = "BitmapHdr"
    THEN BitmapHdr_SetColorspace(b, colorspace, tdp)
    ELSE BitmapHdrHalf_SetColorspace(b, colorspace, tdp)

\* the last call was op, it was made with a pool handle and it has returned
ReturnedTd(op) == status = "ok" /\ call.op = op /\ call.tdp /\ call.pc = "return"

\* the last call was a SetColorspace to a colorspace other than the tag
Converting == call.op = "SetColorspace" /\ call.pre.m_colorspace # call.args[1]

\* C11: when SetColorspace with a pool handle has returned, whatever the order
\* and interleaving in which its units ran, the buffer holds what the same
\* call without a handle (one serial transform over all pixels) leaves in it.
C11_OrderIndependent ==
    ReturnedTd("SetColorspace") =>
        m_data = SetColorspaceOf(BeforeTd, call.args[1], FALSE).m_data

\* a converting call with a handle has returned after two or more units ran
\* on a pool that has a worker thread
C11_Witness ==
    /\ ReturnedTd("SetColorspace")
    /\ Converting
    /\ Len(call.queued) >= 2
    /\ td.NumWorkers >= 1

\* C12: the units a converting SetColorspace with a pool handle queues are
\* contiguous from pixel 0, ChunkPixels pixels each except a last one of
\* n mod ChunkPixels pixels when that is not zero, n pixels together; once
\* the call has returned every colour element has been transformed exactly
\* once and no alpha element has changed.
C12_ChunkCover ==
    (Converting /\ call.tdp /\ status = "ok") =>
        LET n    == call.pre.m_width * call.pre.m_height
            q    == call.queued
            full == n \div ChunkPixels
            rem  == n % ChunkPixels
            t    == IF call.args[1] = "BT2020" THEN "BT709toBT2020" ELSE "BT2020toBT709"
        IN  /\ Len(q) = full + (IF rem # 0 THEN 1 ELSE 0)
            /\ \A k \in 1..Len(q) :
                  /\ q[k].kind = "cmsDoTransform"
                  /\ q[k].src = (k - 1) * ChunkPixels * 4
                  /\ q[k].dst = q[k].src
                  /\ q[k].n = (IF k <= full THEN ChunkPixels ELSE rem)
            /\ call.pc = "return" =>
                  \A j \in 1..(n * 4) :
                      m_data[j] = IF j % 4 = 0
                                  THEN call.pre.m_data[j]
                                  ELSE cmsDoTransform_channel(t, call.pre.m_data[j])

\* a converting call with a handle has returned on a buffer of full chunks
\* and a shorter last one
C12_Witness ==
    /\ ReturnedTd("SetColorspace")
    /\ Converting
    /\ call.pre.m_width * call.pre.m_height > ChunkPixels
    /\ (call.pre.m_width * call.pre.m_height) % ChunkPixels # 0

\* C18: SetColorspace( c ) on a buffer tagged c returns after a warning,
\* leaves every element, the tag, width and height as they were and queues
\* no unit, with or without a pool handle.
C18_SameColorspaceNoOp ==
    (call.op = "SetColorspace" /\ call.pre.m_colorspace = call.args[1]) =>
        /\ status = "ok"
        /\ call.pc = "return"
        /\ call.calls = <<"mclog Warning">>
        /\ Object = call.pre
        /\ call.queued = <<>>
        /\ TaskDispatch_Sync(td)

\* SetColorspace to the buffer's own colorspace was called with a handle
C18_Witness ==
    /\ call.op = "SetColorspace"
    /\ call.pre.m_colorspace = call.args[1]
    /\ call.tdp
    /\ call.pc = "return"

\* element v after the calls of history h that converted
RECURSIVE TransformedBy(_, _)
TransformedBy(v, h) ==
    IF h = <<>>
    THEN v
    ELSE LET e == Head(h)
             t == IF e.args[1] = "BT2020" THEN "BT709toBT2020" ELSE "BT2020toBT709"
         IN  TransformedBy(IF e.tag # e.args[1] THEN cmsDoTransform_channel(t, v) ELSE v,
                           Tail(h))

\* all calls made so far were SetColorspace calls, and they have returned
OnlySetColorspace ==
    /\ status = "ok"
    /\ call.pc = "return"
    /\ call.hist # <<>>
    /\ Len(call.hist) = nops

\* C19: after a sequence of SetColorspace calls, with or without a pool
\* handle, the tag is the target of the last call and every colour element
\* has been transformed once for each call whose target differed from the
\* tag at the time of the call, and not for the others.
C19_TagAndData ==
    OnlySetColorspace =>
        /\ m_colorspace = call.hist[Len(call.hist)].args[1]
        /\ \A j \in 1..Len(m_data) :
              m_data[j] = IF j % 4 = 0 THEN j ELSE TransformedBy(j, call.hist)

\* two converting calls in a row, the first with a handle, the second without
C19_Witness ==
    /\ OnlySetColorspace
    /\ Len(call.hist) >= 2
    /\ call.hist[1].tag # call.hist[1].args[1]
    /\ call.hist[2].tag # call.hist[2].args[1]
    /\ call.hist[1].tdp
    /\ ~call.hist[2].tdp

\* the last call was a Resize or a ResizeNew with a pool handle
ResizingTd == status = "ok" /\ call.op \in {"Resize", "ResizeNew"} /\ call.tdp

\* C13: once a call has returned, no unit is queued or running, so every
\* unit it queued has completed and none touches the buffer or the
\* stack-local resize state afterwards; while a unit of a Resize is queued
\* or running, m_data is still the old array and m_width and m_height are
\* still the old dimensions; and the array Resize and ResizeNew leave has
\* been written in full.
C13_JoinedBeforeReturn ==
    /\ call.pc = "return" => TaskDispatch_Sync(td)
    /\ (call.op = "Resize" /\ ~TaskDispatch_Sync(td)) =>
          /\ m_data = call.pre.m_data
          /\ m_width = call.pre.m_width
          /\ m_height = call.pre.m_height
    /\ ReturnedTd("Resize") => \A j \in 1..Len(m_data) : m_data[j] # Uninit
    /\ ReturnedTd("ResizeNew") => \A j \in 1..Len(ret.m_data) : ret.m_data[j] # Uninit

\* a Resize with a handle has returned after two or more splits ran
C13_Witness ==
    /\ ReturnedTd("Resize")
    /\ Len(call.queued) >= 2
    /\ Object # call.pre

C20_ResizeNewFrame ==
    (status = "ok" /\ call.op = "ResizeNew") =>
        /\ Object = call.pre
        /\ call.pc = "return" =>
              /\ ret.cls = cls
              /\ ret.m_width = call.args[1]
              /\ ret.m_height = call.args[2]
              /\ Len(ret.m_data) = call.args[1] * call.args[2] * 4
              /\ ret.m_colorspace = call.pre.m_colorspace

\* ResizeNew with a handle has returned an object of other dimensions than
\* those of its BT.2020 source
C20_Witness ==
    /\ ReturnedTd("ResizeNew")
    /\ m_colorspace = "BT2020"
    /\ ret.m_width # m_width
    /\ ret.m_height # m_height

\* the last call was a tone mapping through the pool by a loader
ChunkedTonemap ==
    \/ ReturnedTd("ExrLoader::Load")
    \/ ReturnedTd("ImageProvider::Worker")

\* C16: the SDR bitmap a loader gets by tone mapping a BT.709 HDR buffer in
\* units of at most ChunkPixels pixels on the pool is, whatever the order
\* and interleaving of the units, the bitmap BitmapHdr::Tonemap returns for
\* the same buffer and operator.
C16_ChunkedEqualsSerial ==
    ChunkedTonemap => ret = BitmapHdr_Tonemap(BeforeTd, call.args[1]).result

\* ExrLoader::Load has tone mapped a buffer of full chunks and a shorter
\* last one on a pool that has a worker thread
C16_Witness ==
    /\ ReturnedTd("ExrLoader::Load")
    /\ Len(call.queued) >= 2
    /\ (m_width * m_height) % ChunkPixels # 0
    /\ td.NumWorkers >= 1

\* C17: Tonemap on a buffer that is not tagged BT709 ends in the fatal
\* error and returns no bitmap; on a BT709 buffer it returns a Bitmap of the
\* buffer's width and height, with width * height * 4 elements, and the HDR
\* buffer keeps its data, dimensions, colorspace and orientation.
C17_TonemapPrecondition ==
    call.op = "Tonemap" =>
        IF call.pre.m_colorspace # "BT709"
        THEN /\ status = "Tone mapping requires BT.709 colorspace"
             /\ ret = NoObject
        ELSE /\ status = "ok"
             /\ call.pc = "return"
             /\ ret.cls = "Bitmap"
             /\ ret.m_width = call.pre.m_width
             /\ ret.m_height = call.pre.m_height
             /\ Len(ret.m_data) = call.pre.m_width * call.pre.m_height * 4
             /\ Object = call.pre

\* Tonemap was called on a buffer that a SetColorspace call had taken to
\* BT.2020
C17_Witness ==
    /\ call.op = "Tonemap"
    /\ call.pre.m_colorspace = "BT2020"
    /\ call.hist # <<>>
    /\ status # "ok"

\* the threads that have queued units and are in Sync, waiting for them
OpenBatches ==
    (IF provider.pc = "Sync" THEN {"ImageProvider::Worker"} ELSE {}) \cup
    (IF viewport.pc = "Sync" THEN {"Viewport::LoadImage"} ELSE {})

\* C14: on the pool the ImageProvider's thread and the Viewport's thread
\* share, no batch of units is submitted while a batch submitted before has
\* not been joined by Sync: at most one thread has a batch open.
C14_OneBatchAtATime == Cardinality(OpenBatches) <= 1

-----------------------------------------------------------------------------
(* Properties of the memory handling *)

\* C21: in Resize, Rotate90 and Rotate270 the old array is released only
\* after the replacement has been allocated and completely written (at the
\* delete[] the replacement has the size of the new image, no element of it
\* is unwritten, and it is the array the object then holds); and when the
\* allocation fails the data, width, height and orientation are unchanged.
C21_AllocateWriteFree ==
    (last.op \in {"Resize", "Rotate90", "Rotate270"}) =>
        IF status = "std::bad_alloc"
        THEN Fields = last.pre
        ELSE /\ status = "ok"
             /\ Len(last.atFree) = m_width * m_height * 4
             /\ \A i \in 1..Len(last.atFree) : last.atFree[i] # Uninit
             /\ m_data = last.atFree
             /\ last.nalloc = 1

C21_Witness ==
    /\ last.op = "Rotate90"
    /\ status = "std::bad_alloc"
    /\ nops = 2
    /\ m_width # m_height

\* the stores of the last call that write element j (offset j - 1)
StoresTo(j) ==
    {k \in 1..Len(last.writes) :
        (last.writes[k].to <= j - 1) /\ (j - 1 < last.writes[k].to + last.writes[k].n)}

\* C22: after SetAlpha( v ), for every pixel count and both kinds of v,
\* every 4th element is v and every other element is as before; every
\* pixel's alpha is written by exactly one store of the vector loops and the
\* scalar tail, and no store goes past the end of the array.
C22_SetAlphaFrame ==
    (last.op = "SetAlpha") =>
        /\ status = "ok"
        /\ Len(m_data) = Len(last.pre.m_data)
        /\ \A j \in 1..Len(m_data) :
              IF (j - 1) % 4 = 3
              THEN m_data[j] = last.args[1] /\ Cardinality(StoresTo(j)) = 1
              ELSE m_data[j] = last.pre.m_data[j]
        /\ \A k \in 1..Len(last.writes) :
              last.writes[k].to + last.writes[k].n <= Len(m_data)
        /\ ~last.oob

C22_Witness ==
    /\ last.op = "SetAlpha"
    /\ cls = "Bitmap"
    /\ last.args = <<255, 3>>
    /\ m_width * m_height = 30
    /\ Len(last.writes) = 5

\* C23: a BitmapHdrHalf constructed from a BitmapHdr, and a BitmapHdr
\* constructed from a BitmapHdrHalf, has the source's width, height and
\* colorspace, and each of its width * height * 4 elements is the conversion
\* of the source element at the same index, written by exactly one store of
\* the 16-wide, 8-wide and scalar loops.
C23_ConvertEveryElement ==
    (last.op \in {"BitmapHdrHalf::BitmapHdrHalf", "BitmapHdr::BitmapHdr"}) =>
        /\ status = "ok"
        /\ ret.cls = (IF cls = "BitmapHdr" THEN "BitmapHdrHalf" ELSE "BitmapHdr")
        /\ ret.m_width = m_width
        /\ ret.m_height = m_height
        /\ ret.m_colorspace = m_colorspace
        /\ Len(ret.m_data) = m_width * m_height * 4
        /\ \A j \in 1..Len(ret.m_data) :
              /\ ret.m_data[j] = (IF cls = "BitmapHdr" THEN half_float_half(m_data[j])
                                  ELSE half_float_float(m_data[j]))
              /\ Cardinality(StoresTo(j)) = 1
        /\ ~last.oob

C23_Witness ==
    /\ last.op = "BitmapHdrHalf::BitmapHdrHalf"
    /\ last.args = <<3, TRUE>>
    /\ m_width * m_height * 4 = 28
    /\ Len(last.writes) = 6
    /\ ret.m_data[28] = 14

\* C24: when ImageProvider::Worker tone-maps a loaded HDR image, the SDR
\* bitmap (ret) and the HDR bitmap (the object) of the Success callback have
\* equal width and height and the same upright pixel orientation: the SDR
\* bitmap is the tone-mapped image of the HDR bitmap as delivered.
C24_SameUprightFrame ==
    (last.op = "Success") =>
        /\ ret.m_width = m_width
        /\ ret.m_height = m_height
        /\ ret.m_data = ToneMap_Process("PbrNeutral", NewArray(m_width * m_height * 4), 0,
                                        m_data, 0, m_width * m_height)

\* the last call was Extend( w, h ) with w >= Width() and h >= Height()
ExtendedTo(w, h) ==
    /\ last.op = "Extend"
    /\ last.args = <<w, h>>
    /\ w >= last.pre.m_width
    /\ h >= last.pre.m_height

\* C25: Extend( w, h ) with w >= Width() and h >= Height() makes every byte
\* write inside the new array of w*h*4 bytes, also when w > Width().
C25_ExtendWritesInside ==
    \A w \in NewDims, h \in NewDims : ExtendedTo(w, h) => ~last.oob

\* byte c of pixel ( x, y ) of an array d of rows of w pixels
PixelByte(d, w, x, y, c) == d[(y * w + x) * 4 + c + 1]

\* C26: after Extend( w, h ) the buffer is w wide and h high, pixel ( x, y )
\* is the old pixel for x below the old width and y below the old height and
\* zero elsewhere; Extend with w < Width() or h < Height() is fatal and
\* leaves the buffer as it was.
C26_ExtendResult ==
    (last.op = "Extend") =>
        LET w   == last.args[1]
            h   == last.args[2]
            pre == last.pre
        IN  IF w >= pre.m_width /\ h >= pre.m_height
            THEN (status = "ok") =>
                    /\ m_width = w
                    /\ m_height = h
                    /\ Len(m_data) = w * h * 4
                    /\ \A x \in 0..(w - 1), y \in 0..(h - 1), c \in 0..3 :
                          PixelByte(m_data, w, x, y, c) =
                              IF x < pre.m_width /\ y < pre.m_height
                              THEN PixelByte(pre.m_data, pre.m_width, x, y, c)
                              ELSE 0
            ELSE /\ status = "Invalid extension"
                 /\ m_width = pre.m_width
                 /\ m_height = pre.m_height
                 /\ m_data = pre.m_data

-----------------------------------------------------------------------------
(* Properties of the ImageProvider's jobs *)

\* the callbacks made for job id
CallbacksOf(id) == {k \in 1..Len(provider.log) : provider.log[k].id = id}

\* no call of the provider is under way, no job is queued and the worker
\* waits for a job or has returned
Quiescent ==
    /\ provider.m_jobs = <<>>
    /\ provider.pc \in {"wait", "done"}
    /\ \A c \in Clients : provider.client[c].pc \in {"idle", "join"}

\* C27: every job LoadImage has accepted gets its callback exactly once,
\* with one of Success, Error and Cancelled, under every interleaving of
\* LoadImage, Cancel, CancelAll and the worker (the provider is not
\* destroyed with a job queued): never twice, and once when all is done.
C27_CallbackExactlyOnce ==
    /\ \A k \in 1..Len(provider.log) :
          /\ provider.log[k].id \in provider.accepted
          /\ provider.log[k].result \in {"Success", "Error", "Cancelled"}
    /\ \A id \in provider.accepted :
          /\ Cardinality(CallbacksOf(id)) <= 1
          /\ Quiescent => Cardinality(CallbacksOf(id)) = 1

\* jobs were accepted, one was cancelled and one loaded, and all is done
C27_Witness ==
    /\ Quiescent
    /\ Cardinality(provider.accepted) >= 2
    /\ \E j, k \in 1..Len(provider.log) :
          /\ provider.log[j].result = "Cancelled"
          /\ provider.log[k].result \in {"Success", "Error"}

\* C28: no callback of a job runs in a thread that holds the provider's
\* mutex: Cancel, CancelAll and Worker release it before they call.
C28_CallbackUnlocked ==
    \A k \in 1..Len(provider.log) : ~provider.log[k].locked

\* Cancel, CancelAll and Worker have each made a callback
C28_Witness ==
    \A f \in {"Cancel", "CancelAll", "Worker"} :
        \E k \in 1..Len(provider.log) : provider.log[k].from = f

-----------------------------------------------------------------------------
(* Properties of construction *)

\* C29: a Bitmap or BitmapHdr built by the constructor with dimensions and
\* an orientation of 0..8, by the conversion from BitmapHdrHalf, or by the
\* move constructor or move assignment of Bitmap has an Orientation() in
\* 0..8; after a move it is the orientation the moved-from object had.
C29_OrientationDefined ==
    (ret # NoObject) =>
        /\ ret.m_orientation \in 0..8
        /\ (last.op \in {"Bitmap::Bitmap( Bitmap&& )", "Bitmap::operator=( Bitmap&& )"})
               => (ret.m_orientation = last.pre.m_orientation)

\* C30: for all 32-bit widths and heights, the element count the
\* constructors, Resize, Rotate90 and Rotate270 allocate and the pixel count
\* SetColorspace and SetAlpha run over are the products width*height*4 and
\* width*height over the naturals: the count never wraps modulo 2^32.
C30_CountsExact == Widen(last.count, Len(last.exact)) = last.exact

====
